---------------------------- MODULE Spec2Model ----------------------------
(***************************************************************************)
(* hyperpolyglot: the language detection pipeline (detect), its candidate  *)
(* filter, the extension, shebang and heuristics detectors and the         *)
(* classifier.                                                             *)
(*                                                                         *)
(* Text is modelled as a sequence of one-character strings, so that        *)
(* lowercasing, splitting and regex matching are computed and not assumed. *)
(***************************************************************************)
EXTENDS Integers, Sequences, FiniteSets, TLC

\* ------------------------------------------------------------------ bounds

\* Lines a modelled file may hold after its first line (one more than the
\* shebang look-ahead, so that a line beyond the look-ahead exists).
MaxExtraLines == 5

\* ------------------------------------------------------- program constants

\* lines.take(4) of the sh hack.
SHEBANG_LOOKAHEAD == 4
MAX_TOKEN_BYTES == 32
DEFAULT_LOG_PROB == -19

\* ------------------------------------------------------------ text helpers

None == "None"

\* None of an optional text (texts are sequences)
Nil == <<"None">>

\* The byte 0xFF: never part of valid UTF-8.
BAD == "\\xFF"

Upper == <<"A","B","C","D","E","F","G","H","I","J","K","L","M",
           "N","O","P","Q","R","S","T","U","V","W","X","Y","Z">>
Lower == <<"a","b","c","d","e","f","g","h","i","j","k","l","m",
           "n","o","p","q","r","s","t","u","v","w","x","y","z">>
Digits == {"0","1","2","3","4","5","6","7","8","9"}

IsUpper(c) == \E i \in 1..26 : Upper[i] = c
IsWordChar(c) == (\E i \in 1..26 : Upper[i] = c \/ Lower[i] = c) \/ c \in Digits \/ c = "_"
IsSpace(c) == c \in {" ", "\t"}

\* str::to_ascii_lowercase
to_ascii_lowercase(s) ==
    [i \in 1..Len(s) |->
        IF IsUpper(s[i]) THEN Lower[CHOOSE k \in 1..26 : Upper[k] = s[i]] ELSE s[i]]

\* the other case of every ASCII letter (used to build inputs only)
SwapCase(s) ==
    [i \in 1..Len(s) |->
        IF IsUpper(s[i]) THEN Lower[CHOOSE k \in 1..26 : Upper[k] = s[i]]
        ELSE IF \E k \in 1..26 : Lower[k] = s[i]
             THEN Upper[CHOOSE k \in 1..26 : Lower[k] = s[i]]
             ELSE s[i]]

StartsWith(s, p) == Len(s) >= Len(p) /\ SubSeq(s, 1, Len(p)) = p
Suffix(s, i) == SubSeq(s, i, Len(s))
At(s, i, p) == i >= 1 /\ i + Len(p) - 1 <= Len(s) /\ SubSeq(s, i, i + Len(p) - 1) = p
Contains(q, x) == \E i \in 1..Len(q) : q[i] = x
ToSet(q) == {q[i] : i \in 1..Len(q)}
IsValidUtf8(s) == ~Contains(s, BAD)

\* lookup in a phf map held as a sequence of <<key, value>> pairs
HasKey(map, k) == \E i \in 1..Len(map) : map[i][1] = k
Get(map, k) == map[CHOOSE i \in 1..Len(map) : map[i][1] = k][2]
Keys(map) == {map[i][1] : i \in 1..Len(map)}


\* ------------------------------------------- the static knowledge base

\* the keys of languages.yml
LANGUAGES ==
    <<"Alpine Abuild", "JSON with Comments", "JSON", "C", "C++", "Objective-C",
      "C#", "Smalltalk", "CMake", "M4", "PureScript", "Erlang", "JavaScript",
      "Rust", "RenderScript", "Python", "Scala", "Shell", "Perl", "Raku",
      "Parrot Assembly", "Parrot Internal Representation",
      "Roff", "Unix Assembly", "MAXScript",
      "AMPL", "Linux Kernel Module", "Modula-2", "XML">>

\* file names
fn_APKBUILD == <<"A","P","K","B","U","I","L","D">>
fn_eslintrc == <<".","e","s","l","i","n","t","r","c",".","j","s","o","n">>

\* static FILENAMES: phf::Map<&'static str, &'static str>
FILENAMES ==
    << <<fn_APKBUILD, "Alpine Abuild">>,
       <<fn_eslintrc, "JSON with Comments">> >>

\* extensions
x_c == <<".","c">>
x_h == <<".","h">>
x_cs == <<".","c","s">>
x_in == <<".","i","n">>
x_cmake_in == <<".","c","m","a","k","e",".","i","n">>
x_es == <<".","e","s">>
x_rs == <<".","r","s">>
x_ms == <<".","m","s">>
x_mod == <<".","m","o","d">>
x_purs == <<".","p","u","r","s">>
x_json == <<".","j","s","o","n">>

\* static EXTENSIONS: phf::Map<&'static str, &[&str]>; the keys are lowercase
EXTENSIONS ==
    << <<x_c, <<"C">> >>,
       <<x_h, <<"C", "C++", "Objective-C">> >>,
       <<x_cs, <<"C#", "Smalltalk">> >>,
       <<x_in, <<"M4">> >>,
       <<x_cmake_in, <<"CMake">> >>,
       <<x_es, <<"Erlang", "JavaScript">> >>,
       <<x_rs, <<"Rust", "RenderScript">> >>,
       <<x_ms, <<"MAXScript", "Roff", "Unix Assembly">> >>,
       <<x_mod, <<"AMPL", "Linux Kernel Module", "Modula-2", "XML">> >>,
       <<x_purs, <<"PureScript">> >>,
       <<x_json, <<"JSON">> >> >>

\* interpreters
i_python == <<"p","y","t","h","o","n">>
i_python2 == <<"p","y","t","h","o","n","2">>
i_perl == <<"p","e","r","l">>
i_perl6 == <<"p","e","r","l","6">>
i_node == <<"n","o","d","e">>
i_sh == <<"s","h">>
i_env == <<"e","n","v">>
i_scala == <<"s","c","a","l","a">>
i_escript == <<"e","s","c","r","i","p","t">>
i_parrot == <<"p","a","r","r","o","t">>

\* static INTERPRETERS: phf::Map<&'static str, &[&str]>
INTERPRETERS ==
    << <<i_python, <<"Python">> >>,
       <<i_python2, <<"Python">> >>,
       <<i_perl, <<"Perl">> >>,
       <<i_perl6, <<"Raku">> >>,
       <<i_node, <<"JavaScript">> >>,
       <<i_sh, <<"Shell">> >>,
       <<i_scala, <<"Scala">> >>,
       <<i_escript, <<"Erlang">> >>,
       <<i_parrot, <<"Parrot Assembly", "Parrot Internal Representation">> >> >>

\* ------------------------------------------------- detectors: filenames

\* FILENAMES.get(filename).copied()
get_language_from_filename(filename) ==
    IF HasKey(FILENAMES, filename) THEN Get(FILENAMES, filename) ELSE None

\* ------------------------------------------------ detectors: extensions

get_languages_from_extension(extension) ==
    IF HasKey(EXTENSIONS, extension) THEN Get(EXTENSIONS, extension) ELSE <<>>

\* get_extension without the lowercasing
get_extension_case_sensitive(filename) ==
    LET stripped == IF StartsWith(filename, <<".">>) THEN Tail(filename) ELSE filename
        hits == {pos \in 1..Len(stripped) :
                    stripped[pos] = "." /\ HasKey(EXTENSIONS, Suffix(stripped, pos))}
    IN  IF hits = {} THEN Nil
        ELSE Suffix(stripped, CHOOSE pos \in hits : \A q \in hits : pos <= q)

\* get_extension deciding by the last registered '.' instead of the first
get_extension_shortest(filename) ==
    LET stripped == IF StartsWith(filename, <<".">>) THEN Tail(filename) ELSE filename
        lowered == to_ascii_lowercase(stripped)
        hits == {pos \in 1..Len(lowered) :
                    lowered[pos] = "." /\ HasKey(EXTENSIONS, Suffix(lowered, pos))}
    IN  IF hits = {} THEN Nil
        ELSE Suffix(lowered, CHOOSE pos \in hits : \A q \in hits : q <= pos)

\* The first '.' (after one leading '.' is dropped and the name lowercased)
\* whose suffix is a key of EXTENSIONS decides; Nil when there is none.
get_extension(filename) ==
    LET stripped == IF StartsWith(filename, <<".">>) THEN Tail(filename) ELSE filename
        lowered == to_ascii_lowercase(stripped)
        hits == {pos \in 1..Len(lowered) :
                    lowered[pos] = "." /\ HasKey(EXTENSIONS, Suffix(lowered, pos))}
    IN  IF hits = {} THEN Nil
        ELSE Suffix(lowered, CHOOSE pos \in hits : \A q \in hits : pos <= q)

\* --------------------------------------------------- filter_candidates

SelectSeqIn(q, allowed) == SelectSeq(q, LAMBDA l : Contains(allowed, l))

\* filter_candidates taking the new candidates when none of them was a candidate
filter_candidates_newest(previous_candidates, new_candidates) ==
    IF previous_candidates = <<>> THEN new_candidates
    ELSE IF new_candidates = <<>> THEN previous_candidates
    ELSE LET filtered_candidates == SelectSeqIn(previous_candidates, new_candidates)
         IN  IF Len(filtered_candidates) = 0 THEN new_candidates
             ELSE filtered_candidates

\* filter_candidates without the fallback to the previous candidates
filter_candidates_lossy(previous_candidates, new_candidates) ==
    IF previous_candidates = <<>> THEN new_candidates
    ELSE IF new_candidates = <<>> THEN previous_candidates
    ELSE SelectSeqIn(previous_candidates, new_candidates)

filter_candidates(previous_candidates, new_candidates) ==
    IF previous_candidates = <<>> THEN new_candidates
    ELSE IF new_candidates = <<>> THEN previous_candidates
    ELSE LET filtered_candidates == SelectSeqIn(previous_candidates, new_candidates)
         IN  IF Len(filtered_candidates) = 0 THEN previous_candidates
             ELSE filtered_candidates

\* ---------------------------------------------- detectors: interpreters

\* What the reader yields for a line that could not be read at all.
IO_ERROR == <<"<io error>">>

\* One item of BufRead::lines(): Err on an I/O error and on invalid UTF-8.
LineIsOk(item) == item # IO_ERROR /\ IsValidUtf8(item)

\* shebang_line.split('/').last()
LastSegment(line) ==
    LET slashes == {i \in 1..Len(line) : line[i] = "/"}
    IN  IF slashes = {} THEN line
        ELSE Suffix(line, 1 + CHOOSE i \in slashes : \A j \in slashes : j <= i)

\* str::split_whitespace, as the sequence of its words
RECURSIVE split_whitespace(_)
split_whitespace(s) ==
    IF s = <<>> THEN <<>>
    ELSE IF IsSpace(Head(s)) THEN split_whitespace(Tail(s))
    ELSE LET stops == {i \in 1..Len(s) : IsSpace(s[i])}
             stop == IF stops = {} THEN Len(s) + 1
                     ELSE CHOOSE i \in stops : \A j \in stops : i <= j
         IN  <<SubSeq(s, 1, stop - 1)>> \o split_whitespace(Suffix(s, stop))

s_exec == <<"e","x","e","c"," ">>
s_dollar0 == <<"$","0">>
s_dollar_at == <<"$","@">>

\* .+\$0.+\$@ matched from position p of a line ('.' does not match '\n', and
\* the model's lines hold none)
HackTailMatches(line, p) ==
    \E a \in (p + 1)..Len(line) :
        /\ At(line, a, s_dollar0)
        /\ \E b \in (a + 3)..Len(line) : At(line, b, s_dollar_at)

\* the lengths k of (\w+) with which exec (\w+).+\$0.+\$@ matches at position i
HackWordLens(line, i) ==
    {k \in 1..Len(line) :
        /\ At(line, i, s_exec)
        /\ i + 4 + k <= Len(line)
        /\ \A j \in (i + 5)..(i + 4 + k) : IsWordChar(line[j])
        /\ HackTailMatches(line, i + 5 + k)}

\* SHEBANG_HACK_RE.captures(line).get(1): the leftmost match, \w+ greedy
HackCapture(line) ==
    LET starts == {i \in 1..Len(line) : HackWordLens(line, i) # {}}
    IN  IF starts = {} THEN Nil
        ELSE LET i == CHOOSE x \in starts : \A y \in starts : x <= y
                 k == CHOOSE x \in HackWordLens(line, i) :
                          \A y \in HackWordLens(line, i) : y <= x
             IN  SubSeq(line, i + 5, i + 4 + k)

\* the capture in extra_content, the '\n'-join of the lines kept: no part of the
\* regex matches '\n', so the leftmost match lies in the first line that has one
RECURSIVE HackCaptureIn(_)
HackCaptureIn(lines) ==
    IF lines = <<>> THEN Nil
    ELSE IF HackCapture(Head(lines)) # Nil THEN HackCapture(Head(lines))
    ELSE HackCaptureIn(Tail(lines))

\* the look-ahead without its limit of four lines
ExtraLines_unbounded(rest) == SelectSeq(rest, LineIsOk)

\* lines.take(4).filter_map(|line| line.ok()) on the items after the first
ExtraLines(rest) ==
    SelectSeq(SubSeq(rest, 1, IF Len(rest) < SHEBANG_LOOKAHEAD THEN Len(rest)
                                 ELSE SHEBANG_LOOKAHEAD),
              LineIsOk)

\* RE.split(interpreter).next().unwrap() with RE = [0-9]\.[0-9]
StripVersion(interpreter) ==
    LET hits == {i \in 1..(Len(interpreter) - 2) :
                    /\ interpreter[i] \in Digits
                    /\ interpreter[i + 1] = "."
                    /\ interpreter[i + 2] \in Digits}
    IN  IF hits = {} THEN interpreter
        ELSE SubSeq(interpreter, 1, (CHOOSE i \in hits : \A j \in hits : i <= j) - 1)

\* the interpreter named by the last segment of the shebang line, Nil if none
ParseInterpreter(shebang_line, rest) ==
    LET splits == split_whitespace(LastSegment(shebang_line))
    IN  IF splits = <<>> THEN Nil
        ELSE IF splits[1] = i_env THEN (IF Len(splits) >= 2 THEN splits[2] ELSE Nil)
        ELSE IF splits[1] = i_sh
             THEN LET cap == HackCaptureIn(ExtraLines(rest))
                  IN  IF cap = Nil THEN i_sh ELSE cap
        ELSE splits[1]

ShebangResult(ok, languages, looked_up) ==
    [ok |-> ok, languages |-> languages, looked_up |-> looked_up]

\* get_languages_from_shebang on a reader that yields `items`; looked_up is the
\* key handed to INTERPRETERS.get (Nil when no lookup is made)
get_languages_from_shebang(items) ==
    IF items = <<>> THEN ShebangResult(TRUE, <<>>, Nil)
    ELSE IF ~LineIsOk(Head(items)) THEN ShebangResult(FALSE, <<>>, Nil)
    ELSE IF ~StartsWith(Head(items), <<"#", "!">>) THEN ShebangResult(TRUE, <<>>, Nil)
    ELSE LET interpreter == ParseInterpreter(Head(items), Tail(items))
         IN  IF interpreter = Nil THEN ShebangResult(TRUE, <<>>, Nil)
             ELSE LET key == StripVersion(interpreter)
                  IN  IF HasKey(INTERPRETERS, key)
                      THEN ShebangResult(TRUE, Get(INTERPRETERS, key), key)
                      ELSE ShebangResult(TRUE, <<>>, key)

\* ------------------------------------------------------------ heuristics

\* The regexes of the catalog are kept by name; what PCRE answers for a regex on
\* a content is part of the content (field rx): "match", "nomatch" or "error"
\* (is_match returning Err, e.g. a match limit).
Regexes == {"re1", "re2", "re3"}
RegexOutcomes == {"match", "nomatch", "error"}

Positive(re) == [kind |-> "Positive", re |-> re, patterns |-> <<>>]
Negative(re) == [kind |-> "Negative", re |-> re, patterns |-> <<>>]
Or(patterns) == [kind |-> "Or", re |-> "", patterns |-> patterns]
And(patterns) == [kind |-> "And", re |-> "", patterns |-> patterns]
NoPattern == [kind |-> "None", re |-> "", patterns |-> <<>>]

Rule(languages, pattern) == [languages |-> languages, pattern |-> pattern]

\* regex.is_match(content.as_bytes())
is_match(re, content) == content.rx[re]

RECURSIVE matches(_, _)
matches(pattern, content) ==
    CASE pattern.kind = "Positive" ->
            \* is_match(..).unwrap_or(false)
            is_match(pattern.re, content) = "match"
      [] pattern.kind = "Negative" ->
            \* !is_match(..).unwrap_or(true)
            ~(is_match(pattern.re, content) \in {"match", "error"})
      [] pattern.kind = "Or" ->
            \E i \in 1..Len(pattern.patterns) : matches(pattern.patterns[i], content)
      [] pattern.kind = "And" ->
            \A i \in 1..Len(pattern.patterns) : matches(pattern.patterns[i], content)

\* heuristics.yml, after deserialisation (named patterns resolved)
HeuristicsYml ==
    << [extensions |-> <<x_es>>,
        rules |-> << Rule(<<"Erlang">>, Positive("re1")),
                     Rule(<<"JavaScript">>, Positive("re2")) >>],
       [extensions |-> <<x_h>>,
        rules |-> << Rule(<<"Objective-C">>, Positive("re1")),
                     Rule(<<"C++">>, Or(<<Positive("re2"), Positive("re3")>>)) >>],
       [extensions |-> <<x_ms>>,
        rules |-> << Rule(<<"Roff">>, Positive("re1")),
                     Rule(<<"Unix Assembly">>, And(<<Negative("re2"), Positive("re3")>>)),
                     Rule(<<"MAXScript">>, NoPattern) >>],
       [extensions |-> <<x_mod>>,
        rules |-> << Rule(<<"XML">>, Positive("re1")),
                     Rule(<<"Linux Kernel Module", "AMPL">>, NoPattern) >>] >>

\* temp_map.insert(key, value)
MapInsert(map, key, value) ==
    IF HasKey(map, key)
    THEN [i \in 1..Len(map) |-> IF map[i][1] = key THEN <<key, value>> ELSE map[i]]
    ELSE Append(map, <<key, value>>)

\* the inner loop without the rule pushed for .h
RECURSIVE InsertDisambiguation_plain(_, _, _)
InsertDisambiguation_plain(map, extensions, rules) ==
    IF extensions = <<>> THEN map
    ELSE InsertDisambiguation_plain(
            MapInsert(map, to_ascii_lowercase(Head(extensions)), rules),
            Tail(extensions), rules)

\* the inner loop: for ext in dis.extensions
RECURSIVE InsertDisambiguation(_, _, _)
InsertDisambiguation(map, extensions, rules) ==
    IF extensions = <<>> THEN map
    ELSE LET ext == Head(extensions)
             pushed == IF ext = x_h THEN Append(rules, Rule(<<"C">>, NoPattern))
                       ELSE rules
         IN  InsertDisambiguation(MapInsert(map, to_ascii_lowercase(ext), pushed),
                                  Tail(extensions), pushed)

RECURSIVE InsertDisambiguations(_, _)
InsertDisambiguations(map, disambiguations) ==
    IF disambiguations = <<>> THEN map
    ELSE InsertDisambiguations(
            InsertDisambiguation(map, Head(disambiguations).extensions,
                                 Head(disambiguations).rules),
            Tail(disambiguations))

create_disambiguation_heuristics_map(heuristics) ==
    InsertDisambiguations(<<>>, heuristics)

\* static DISAMBIGUATIONS: phf::Map<&'static str, &'static [Rule]>
DISAMBIGUATIONS == create_disambiguation_heuristics_map(HeuristicsYml)

\* rule.languages.iter().all(|language| candidates.contains(language))
RuleApplies(rule, candidates) ==
    \A i \in 1..Len(rule.languages) : Contains(candidates, rule.languages[i])

RuleMatches(rule, content) ==
    IF rule.pattern.kind = "None" THEN TRUE ELSE matches(rule.pattern, content)

\* get_languages walking every rule of the extension, applicable or not
get_languages_unfiltered(extension, candidates, content) ==
    IF ~HasKey(DISAMBIGUATIONS, extension) THEN <<>>
    ELSE LET rules == Get(DISAMBIGUATIONS, extension)
             hits == {i \in 1..Len(rules) : RuleMatches(rules[i], content)}
         IN  IF hits = {} THEN <<>>
             ELSE rules[CHOOSE i \in hits : \A j \in hits : i <= j].languages

get_languages(extension, candidates, content) ==
    IF ~HasKey(DISAMBIGUATIONS, extension) THEN <<>>
    ELSE LET rules == SelectSeq(Get(DISAMBIGUATIONS, extension),
                                LAMBDA rule : RuleApplies(rule, candidates))
             hits == {i \in 1..Len(rules) : RuleMatches(rules[i], content)}
         IN  IF hits = {} THEN <<>>
             ELSE rules[CHOOSE i \in hits : \A j \in hits : i <= j].languages

\* ------------------------------------------------------------ classifier

NEG_INFINITY == -1000000

t_fn == <<"f","n">>
t_brace == <<"{">>
t_hash == <<"#">>
t_long == [i \in 1..(MAX_TOKEN_BYTES + 1) |-> "x"]

\* static TOKEN_LOG_PROBABILITIES (logarithms rounded to integers); a language
\* without samples has no entry
TOKEN_LOG_PROBABILITIES ==
    << <<"Rust", << <<t_fn, -1>>, <<t_brace, -2>> >> >>,
       <<"RenderScript", << <<t_hash, -1>>, <<t_brace, -2>>, <<t_long, -1>> >> >>,
       <<"C", << <<t_hash, -1>>, <<t_brace, -2>> >> >>,
       <<"C++", << <<t_hash, -2>>, <<t_brace, -1>> >> >>,
       <<"Erlang", << <<t_fn, -3>> >> >>,
       <<"JavaScript", << <<t_brace, -1>> >> >>,
       <<"Roff", << <<t_hash, -3>> >> >>,
       <<"XML", << <<t_brace, -3>> >> >> >>

\* tokenizer::tokenize(content)
tokenize(content) == content.tokens

RECURSIVE SumLogProbs(_, _)
SumLogProbs(token_map, tokens) ==
    IF tokens = <<>> THEN 0
    ELSE (IF HasKey(token_map, Head(tokens)) THEN Get(token_map, Head(tokens))
          ELSE DEFAULT_LOG_PROB)
         + SumLogProbs(token_map, Tail(tokens))

Score(language, content) ==
    IF HasKey(TOKEN_LOG_PROBABILITIES, language)
    THEN SumLogProbs(Get(TOKEN_LOG_PROBABILITIES, language),
                     SelectSeq(tokenize(content), LAMBDA t : Len(t) <= MAX_TOKEN_BYTES))
    ELSE NEG_INFINITY

\* the sort placing an element ahead of the elements that score the same
RECURSIVE SortByScore_unstable(_)
SortByScore_unstable(scored) ==
    IF scored = <<>> THEN <<>>
    ELSE LET sorted == SortByScore_unstable(SubSeq(scored, 1, Len(scored) - 1))
             last == scored[Len(scored)]
             ahead == {i \in 1..Len(sorted) : sorted[i].score > last.score}
             n == IF ahead = {} THEN 0 ELSE CHOOSE i \in ahead : \A j \in ahead : j <= i
         IN  SubSeq(sorted, 1, n) \o <<last>> \o SubSeq(sorted, n + 1, Len(sorted))

\* Vec::sort_by(|a, b| b.score.partial_cmp(&a.score)): a stable sort, greatest
\* score first; an element goes behind every element that does not score less
RECURSIVE SortByScore(_)
SortByScore(scored) ==
    IF scored = <<>> THEN <<>>
    ELSE LET sorted == SortByScore(SubSeq(scored, 1, Len(scored) - 1))
             last == scored[Len(scored)]
             ahead == {i \in 1..Len(sorted) : sorted[i].score >= last.score}
             n == IF ahead = {} THEN 0 ELSE CHOOSE i \in ahead : \A j \in ahead : j <= i
         IN  SubSeq(sorted, 1, n) \o <<last>> \o SubSeq(sorted, n + 1, Len(sorted))

\* scored_candidates[0] of an empty Vec: the thread panics
PANIC == "<panic>"

\* candidates.iter().map(..).collect(), with LANGUAGES standing in for no candidates
scored_candidates(content, candidates) ==
    LET cands == IF Len(candidates) = 0 THEN LANGUAGES ELSE candidates
    IN  [i \in 1..Len(cands) |->
            [language |-> cands[i], score |-> Score(cands[i], content)]]

\* classify scoring the candidates as given, also when there are none
classify_given_only(content, candidates) ==
    LET scored == SortByScore([i \in 1..Len(candidates) |->
                        [language |-> candidates[i],
                         score |-> Score(candidates[i], content)]])
    IN  IF scored = <<>> THEN PANIC ELSE scored[1].language

classify(content, candidates) ==
    LET scored == SortByScore(scored_candidates(content, candidates))
    IN  IF scored = <<>> THEN PANIC ELSE scored[1].language

\* ---------------------------------------------------------------- detect

\* path.file_name() is None (a path such as "/" or "..")
NoFileName == <<"<no file name>">>
\* path.file_name() is not valid UTF-8: to_str() is None
NonUtf8FileName == <<"<not utf-8>">>

Pending == [kind |-> "Pending", variant |-> None, language |-> None]
OkNone == [kind |-> "Ok", variant |-> None, language |-> None]
Detection(variant, language) == [kind |-> "Ok", variant |-> variant, language |-> language]
Err(op) == [kind |-> "Err", variant |-> op, language |-> None]

NoContent == [rx |-> [re \in Regexes |-> "nomatch"], tokens |-> <<>>]

\* One detector call of detect: the candidates it was given and the languages it
\* returned.
Ran(stage, given, languages) == [stage |-> stage, given |-> given, languages |-> languages]

\* The locals of one call of detect. io lists the file operations performed so
\* far and ran the detector calls made so far.
DetectStart(path, f) ==
    [pc |-> "filename", filename |-> path, file |-> f, extension |-> Nil,
     candidates |-> <<>>, content |-> NoContent, result |-> Pending,
     io |-> <<>>, ran |-> <<>>]

Return(d, result) == [d EXCEPT !.pc = "done", !.result = result]

\* detect without the early return on a known file name
StageFilename_no_return(d) ==
    IF d.filename = NoFileName THEN Return(d, OkNone)
    ELSE [d EXCEPT !.pc = "extension"]

\* lib.rs 137-145
StageFilename(d) ==
    IF d.filename = NoFileName THEN Return(d, OkNone)
    ELSE LET candidate == IF d.filename = NonUtf8FileName THEN None
                          ELSE get_language_from_filename(d.filename)
             ran == IF d.filename = NonUtf8FileName THEN d.ran
                    ELSE Append(d.ran, Ran("filename", <<>>,
                                           IF candidate = None THEN <<>> ELSE <<candidate>>))
         IN  IF candidate # None
             THEN Return([d EXCEPT !.ran = ran], Detection("Filename", candidate))
             ELSE [d EXCEPT !.ran = ran, !.pc = "extension"]

\* lib.rs 147-155
StageExtension(d) ==
    LET extension == IF d.filename = NonUtf8FileName THEN Nil
                     ELSE get_extension(d.filename)
        candidates == IF extension = Nil THEN <<>>
                      ELSE get_languages_from_extension(extension)
        e == [d EXCEPT !.extension = extension, !.candidates = candidates,
                       !.ran = IF d.filename = NonUtf8FileName THEN d.ran
                               ELSE Append(d.ran, Ran("extension", <<>>, candidates))]
    IN  IF Len(candidates) = 1
        THEN Return(e, Detection("Extension", candidates[1]))
        ELSE [e EXCEPT !.pc = "open"]

\* lib.rs 157-158
OpenFile(d) ==
    LET e == [d EXCEPT !.io = Append(d.io, "open")]
    IN  IF d.file.exists THEN [e EXCEPT !.pc = "shebang"] ELSE Return(e, Err("open"))

\* the shebang stage without its early return
StageShebang_no_return(d) ==
    LET r == get_languages_from_shebang(d.file.items)
        e == [d EXCEPT !.io = Append(d.io, "read_line"),
                       !.ran = Append(d.ran, Ran("shebang", d.candidates, r.languages))]
    IN  IF ~r.ok THEN Return(e, Err("read_line"))
        ELSE [e EXCEPT !.candidates = filter_candidates(d.candidates, r.languages),
                       !.pc = "read"]

\* lib.rs 160-166
StageShebang(d) ==
    LET r == get_languages_from_shebang(d.file.items)
        e == [d EXCEPT !.io = Append(d.io, "read_line"),
                       !.ran = Append(d.ran, Ran("shebang", d.candidates, r.languages))]
    IN  IF ~r.ok THEN Return(e, Err("read_line"))
        ELSE LET candidates == filter_candidates(d.candidates, r.languages)
                 g == [e EXCEPT !.candidates = candidates]
             IN  IF Len(candidates) = 1
                 THEN Return(g, Detection("Shebang", candidates[1]))
                 ELSE [g EXCEPT !.pc = "read"]

\* lib.rs 167-171: seek to the start, read the whole file as UTF-8
ReadContent(d) ==
    LET sought == [d EXCEPT !.io = Append(d.io, "seek")]
        read == [sought EXCEPT !.io = Append(sought.io, "read_to_string")]
    IN  IF d.file.fault = "seek" THEN Return(sought, Err("seek"))
        ELSE IF d.file.fault = "read" \/ \E i \in 1..Len(d.file.items) : ~LineIsOk(d.file.items[i])
             THEN Return(read, Err("read_to_string"))
        ELSE [read EXCEPT !.pc = "heuristics",
                          !.content = [rx |-> d.file.rx, tokens |-> d.file.tokens]]

\* lib.rs 175-189
StageHeuristics(d) ==
    LET run == Len(d.candidates) > 1 /\ d.extension # Nil
        languages == get_languages(d.extension, d.candidates, d.content)
        candidates == IF run THEN filter_candidates(d.candidates, languages)
                      ELSE d.candidates
        e == [d EXCEPT !.candidates = candidates,
                       !.ran = IF run
                               THEN Append(d.ran, Ran("heuristics", d.candidates, languages))
                               ELSE d.ran]
    IN  IF Len(candidates) = 0 THEN Return(e, OkNone)
        ELSE IF Len(candidates) = 1 THEN Return(e, Detection("Heuristics", candidates[1]))
        ELSE [e EXCEPT !.pc = "classify"]

\* lib.rs 190-193
StageClassifier(d) ==
    LET language == classify(d.content, d.candidates)
    IN  Return([d EXCEPT !.ran = Append(d.ran, Ran("classifier", d.candidates, <<language>>))],
               Detection("Classifier", language))

DetectStep(d) ==
    CASE d.pc = "filename" -> StageFilename(d)
      [] d.pc = "extension" -> StageExtension(d)
      [] d.pc = "open" -> OpenFile(d)
      [] d.pc = "shebang" -> StageShebang(d)
      [] d.pc = "read" -> ReadContent(d)
      [] d.pc = "heuristics" -> StageHeuristics(d)
      [] d.pc = "classify" -> StageClassifier(d)

RECURSIVE DetectRun(_)
DetectRun(d) == IF d.pc = "done" THEN d ELSE DetectRun(DetectStep(d))

\* detect(path) with the file system holding f at path
detect(path, f) == DetectRun(DetectStart(path, f)).result

\* ------------------------------------------------------------ the inputs

l_text == <<"x">>
l_bad == <<BAD>>
l_python == <<"#","!","/","b","i","n","/","p","y","t","h","o","n">>
l_env_escript == <<"#","!","/","b","i","n","/","e","n","v"," ","e","s","c","r","i","p","t">>
l_parrot == <<"#","!","/","b","i","n","/","p","a","r","r","o","t">>
l_sh == <<"#","!","/","b","i","n","/","s","h">>
l_perl60 == <<"#","!","/","b","i","n","/","p","e","r","l","6",".","0">>
l_exec_scala == <<"e","x","e","c"," ","s","c","a","l","a"," ","\"","$","0","\""," ","\"","$","@","\"">>

\* names given to detect
Stems == {<<"a">>}
ExtensionInputs == Keys(EXTENSIONS) \cup {<<>>, <<".", "x">>, <<".", "x", ".", "c">>}
PlainNames ==
    Keys(FILENAMES) \cup {x_cs, x_c}
        \cup {stem \o e : stem \in Stems, e \in ExtensionInputs}
Names == PlainNames \cup {SwapCase(n) : n \in PlainNames}
Paths == Names \cup {NoFileName, NonUtf8FileName}

\* what the file at the path holds
DetectItems ==
    { <<>>, <<l_text>>, <<l_python>>, <<l_env_escript>>, <<l_parrot>>,
      <<l_sh, l_exec_scala>>, <<l_perl60>>, <<l_bad>>, <<l_text, l_bad>>,
      <<IO_ERROR>>, <<l_sh, IO_ERROR>> }
Oracles == [Regexes -> RegexOutcomes]
\* the contents given to detect: a match-time error is tried on one regex
DetectOracles == {rx \in Oracles : rx["re2"] # "error" /\ rx["re3"] # "error"}
TokenSeqs == { <<t_fn, t_brace>>, <<t_hash, t_long>> }

File(exists, fault, items, rx, tokens) ==
    [exists |-> exists, fault |-> fault, items |-> items, rx |-> rx, tokens |-> tokens]

Files ==
    {File(TRUE, "none", items, rx, tokens) :
        items \in DetectItems, rx \in DetectOracles, tokens \in TokenSeqs}
    \cup {File(e[1], e[2], <<l_text>>, [re \in Regexes |-> "nomatch"], <<t_fn>>) :
            e \in {<<FALSE, "none">>, <<TRUE, "seek">>, <<TRUE, "read">>}}

\* ------------------------------------------------------------- the state

VARIABLES
    pc,          \* where the call of detect stands
    filename,    \* path.file_name()
    file,        \* the file at the path
    extension,   \* detect's extension
    candidates,  \* detect's candidates
    content,     \* detect's content, once read
    result,      \* what detect returned
    io,          \* the file operations detect has performed
    ran,         \* the detector calls detect has made
    unit         \* a direct call of one of the detectors, with its result

vars == <<pc, filename, file, extension, candidates, content, result, io, ran, unit>>

Cur ==
    [pc |-> pc, filename |-> filename, file |-> file, extension |-> extension,
     candidates |-> candidates, content |-> content, result |-> result,
     io |-> io, ran |-> ran]

IsState(d) ==
    /\ pc = d.pc /\ filename = d.filename /\ file = d.file
    /\ extension = d.extension /\ candidates = d.candidates
    /\ content = d.content /\ result = d.result /\ io = d.io /\ ran = d.ran

Becomes(d) ==
    /\ pc' = d.pc /\ filename' = d.filename /\ file' = d.file
    /\ extension' = d.extension /\ candidates' = d.candidates
    /\ content' = d.content /\ result' = d.result /\ io' = d.io /\ ran' = d.ran

NoUnit == [op |-> "none"]

\* detect is called with a path and some file (or none) at it
Init ==
    /\ \E path \in Paths, f \in Files : IsState(DetectStart(path, f))
    /\ unit = NoUnit

DoFilename == pc = "filename" /\ Becomes(StageFilename(Cur)) /\ UNCHANGED unit
DoExtension == pc = "extension" /\ Becomes(StageExtension(Cur)) /\ UNCHANGED unit
DoOpen == pc = "open" /\ Becomes(OpenFile(Cur)) /\ UNCHANGED unit
DoShebang == pc = "shebang" /\ Becomes(StageShebang(Cur)) /\ UNCHANGED unit
DoRead == pc = "read" /\ Becomes(ReadContent(Cur)) /\ UNCHANGED unit
DoHeuristics == pc = "heuristics" /\ Becomes(StageHeuristics(Cur)) /\ UNCHANGED unit
DoClassifier == pc = "classify" /\ Becomes(StageClassifier(Cur)) /\ UNCHANGED unit

Next ==
    \/ DoFilename
    \/ DoExtension
    \/ DoOpen
    \/ DoShebang
    \/ DoRead
    \/ DoHeuristics
    \/ DoClassifier

Spec == Init /\ [][Next]_vars

\* ------------------------------------------- direct calls of the detectors

\* no call of detect is under way
Idle ==
    [pc |-> "idle", filename |-> NoFileName,
     file |-> File(FALSE, "none", <<>>, [re \in Regexes |-> "nomatch"], <<>>),
     extension |-> Nil, candidates |-> <<>>, content |-> NoContent,
     result |-> Pending, io |-> <<>>, ran |-> <<>>]

DetectVars == <<pc, filename, file, extension, candidates, content, result, io, ran>>

\* all sequences over S of length at most n
RECURSIVE SeqsUpTo(_, _)
SeqsUpTo(S, n) ==
    IF n = 0 THEN {<<>>}
    ELSE LET shorter == SeqsUpTo(S, n - 1)
         IN  shorter \cup {Append(q, x) : q \in shorter, x \in S}

\* ---- filter_candidates

MaxCandidates == 2
FilterLanguages == {"JavaScript", "Python", "Erlang"}

InitFilter ==
    /\ IsState(Idle)
    /\ \E prev \in SeqsUpTo(FilterLanguages, MaxCandidates),
          new \in SeqsUpTo(FilterLanguages, MaxCandidates) :
            unit = [op |-> "filter_candidates", returned |-> FALSE,
                    previous_candidates |-> prev, new_candidates |-> new, out |-> <<>>]

CallFilterCandidates ==
    /\ unit.op = "filter_candidates" /\ ~unit.returned
    /\ unit' = [unit EXCEPT !.returned = TRUE,
                            !.out = filter_candidates(unit.previous_candidates,
                                                      unit.new_candidates)]
    /\ UNCHANGED DetectVars

NextFilter == CallFilterCandidates

SpecFilter == InitFilter /\ [][NextFilter]_vars

\* ---- get_extension

\* dotted pieces a name is made of
MaxPieces == 2
NamePieces == {<<>>, <<".">>, <<".", "c">>, <<".", "C">>, <<".", "i", "n">>,
               <<".", "c", "m", "a", "k", "e">>, <<".", "x">>, <<".", "c", "s">>}
NameStems == {<<>>, <<"a">>, <<"A", "b">>}

RECURSIVE Concat(_)
Concat(qs) == IF qs = <<>> THEN <<>> ELSE Head(qs) \o Concat(Tail(qs))

ExtensionNames ==
    {stem \o Concat(pieces) : stem \in NameStems,
                              pieces \in SeqsUpTo(NamePieces, MaxPieces)}

InitExtension ==
    /\ IsState(Idle)
    /\ \E name \in ExtensionNames :
            unit = [op |-> "get_extension", returned |-> FALSE,
                    filename |-> name, out |-> Nil]

CallGetExtension ==
    /\ unit.op = "get_extension" /\ ~unit.returned
    /\ unit' = [unit EXCEPT !.returned = TRUE, !.out = get_extension(unit.filename)]
    /\ UNCHANGED DetectVars

NextExtension == CallGetExtension

SpecExtension == InitExtension /\ [][NextExtension]_vars

\* ---- get_languages_from_shebang

w_python273 == <<"p","y","t","h","o","n","2",".","7",".","3">>
w_python26 == <<"p","y","t","h","o","n","2",".","6">>
w_perl60 == <<"p","e","r","l","6",".","0">>
w_27 == <<"2",".","7">>
p_bin == <<"#","!","/","b","i","n","/">>
p_bin_env == <<"#","!","/","b","i","n","/","e","n","v"," ">>

ShebangPrefixes ==
    { <<>>, <<" ">>, <<"#">>, <<"#", "!">>, <<"#", "!", " ">>, <<"#", "!", "/">>,
      p_bin, <<" ">> \o p_bin, p_bin \o <<" ">>, p_bin_env, <<BAD>> }
ShebangWords ==
    { <<>>, i_python, w_python273, w_python26, w_perl60, w_27, i_sh, i_env,
      i_node, i_parrot, l_text }
ShebangSuffixes == { <<>>, <<" ">>, <<" ", "-", "w">>, <<"/">>, <<BAD>> }

FirstLines ==
    {p \o w \o x : p \in ShebangPrefixes, w \in ShebangWords, x \in ShebangSuffixes}

\* first lines whose interpreter segment starts with the word sh
ShFirstLines == {l_sh, l_sh \o <<" ", "-", "e">>, <<"#", "!", "/", " ">> \o i_sh}

l_exec_node == <<" "," ","e","x","e","c"," ","n","o","d","e"," ","$","0"," ","-","-"," ","$","@">>
l_exec_only == <<"e","x","e","c"," ","s","c","a","l","a">>

\* lines that hold exec <word> ... $0 ... $@, each with its word
ExecLines == { <<l_exec_scala, i_scala>>, <<l_exec_node, i_node>> }
\* lines that do not
Fillers == { l_text, l_bad, l_exec_only, IO_ERROR }

Repeat(x, n) == [i \in 1..n |-> x]

\* what may follow the first line: nothing, or an exec line behind up to
\* MaxExtraLines - 1 other lines
FollowingLines ==
    {<<>>} \cup {Repeat(filler, k) \o <<e[1]>> :
                    filler \in Fillers, k \in 0..(MaxExtraLines - 1), e \in ExecLines}

ShebangInputs ==
    {<<>>, <<IO_ERROR>>}
    \cup {<<first>> \o rest : first \in FirstLines, rest \in {<<>>, <<l_exec_scala>>}}
    \cup {<<first>> \o rest : first \in ShFirstLines, rest \in FollowingLines}

InitShebang ==
    /\ IsState(Idle)
    /\ \E items \in ShebangInputs :
            unit = [op |-> "get_languages_from_shebang", returned |-> FALSE,
                    items |-> items, out |-> ShebangResult(TRUE, <<>>, Nil)]

CallGetLanguagesFromShebang ==
    /\ unit.op = "get_languages_from_shebang" /\ ~unit.returned
    /\ unit' = [unit EXCEPT !.returned = TRUE,
                            !.out = get_languages_from_shebang(unit.items)]
    /\ UNCHANGED DetectVars

NextShebang == CallGetLanguagesFromShebang

SpecShebang == InitShebang /\ [][NextShebang]_vars

\* ---- get_languages (heuristics)

MaxRuleCandidates == 3
RuleLanguages ==
    <<"C", "C++", "Objective-C", "AMPL", "Linux Kernel Module", "XML",
      "MAXScript", "Roff", "Unix Assembly">>
\* candidate lists: get_languages only asks whether a language is among them
CandidateLists ==
    {SelectSeq(RuleLanguages, LAMBDA l : l \in S) :
        S \in {T \in SUBSET ToSet(RuleLanguages) : Cardinality(T) <= MaxRuleCandidates}}
HeuristicsExtensions == {x_h, x_mod, x_ms, x_c}

InitHeuristics ==
    /\ IsState(Idle)
    /\ \E ext \in HeuristicsExtensions, cands \in CandidateLists, rx \in Oracles :
            unit = [op |-> "get_languages", returned |-> FALSE,
                    extension |-> ext, candidates |-> cands,
                    content |-> [rx |-> rx, tokens |-> <<>>], out |-> <<>>]

CallGetLanguages ==
    /\ unit.op = "get_languages" /\ ~unit.returned
    /\ unit' = [unit EXCEPT !.returned = TRUE,
                            !.out = get_languages(unit.extension, unit.candidates,
                                                  unit.content)]
    /\ UNCHANGED DetectVars

NextHeuristics == CallGetLanguages

SpecHeuristics == InitHeuristics /\ [][NextHeuristics]_vars

\* ---- Pattern::matches

\* the patterns tried: each regex alone, and Or and And of one or two of those
LeafPatterns == {Positive(re) : re \in Regexes} \cup {Negative(re) : re \in Regexes}
MaxSubPatterns == 2
PatternInputs ==
    LeafPatterns
        \cup {Or(ps) : ps \in SeqsUpTo(LeafPatterns, MaxSubPatterns)}
        \cup {And(ps) : ps \in SeqsUpTo(LeafPatterns, MaxSubPatterns)}

InitPattern ==
    /\ IsState(Idle)
    /\ \E pattern \in PatternInputs, rx \in Oracles :
            unit = [op |-> "matches", returned |-> FALSE, pattern |-> pattern,
                    content |-> [rx |-> rx, tokens |-> <<>>], out |-> FALSE]

CallMatches ==
    /\ unit.op = "matches" /\ ~unit.returned
    /\ unit' = [unit EXCEPT !.returned = TRUE,
                            !.out = matches(unit.pattern, unit.content)]
    /\ UNCHANGED DetectVars

NextPattern == CallMatches

SpecPattern == InitPattern /\ [][NextPattern]_vars

\* ---- classify

MaxClassifyCandidates == 2
MaxTokens == 2
\* trained languages, two of them with the same log-probabilities for # and {,
\* and languages without samples
ClassifyLanguages == {"Rust", "RenderScript", "C", "Erlang", "AMPL", "MAXScript"}
t_unseen == <<"z">>
ClassifyTokens == {t_fn, t_brace, t_hash, t_long, t_unseen}

InitClassify ==
    /\ IsState(Idle)
    /\ \E cands \in SeqsUpTo(ClassifyLanguages, MaxClassifyCandidates),
          tokens \in SeqsUpTo(ClassifyTokens, MaxTokens) :
            unit = [op |-> "classify", returned |-> FALSE, candidates |-> cands,
                    content |-> [rx |-> [re \in Regexes |-> "nomatch"], tokens |-> tokens],
                    out |-> None]

CallClassify ==
    /\ unit.op = "classify" /\ ~unit.returned
    /\ unit' = [unit EXCEPT !.returned = TRUE,
                            !.out = classify(unit.content, unit.candidates)]
    /\ UNCHANGED DetectVars

NextClassify == CallClassify

SpecClassify == InitClassify /\ [][NextClassify]_vars

\* ---- the tokenizers

Min(S) == CHOOSE x \in S : \A y \in S : x <= y
Max(S) == CHOOSE x \in S : \A y \in S : y <= x

\* \s of the token regexes
IsLexSpace(c) == c \in {" ", "\t", "\n", "\r", "\f"}
NotNewline(c) == c # "\n"

\* the length of the longest prefix of r whose characters all satisfy Ok
RunLen(r, Ok(_)) ==
    LET stop == {i \in 1..Len(r) : ~Ok(r[i])}
    IN  IF stop = {} THEN Len(r) ELSE Min(stop) - 1

\* src/tokenizer.rs: Text is [A-Za-z0-9_]+, Symbol is one [^A-Za-z0-9_\s], the
\* rest is an Error token, which tokenize drops
RECURSIVE tokenizer_tokenize(_)
tokenizer_tokenize(s) ==
    IF s = <<>> THEN <<>>
    ELSE IF IsWordChar(s[1])
         THEN LET n == RunLen(s, IsWordChar)
              IN  <<SubSeq(s, 1, n)>> \o tokenizer_tokenize(Suffix(s, n + 1))
    ELSE IF IsLexSpace(s[1]) THEN tokenizer_tokenize(Tail(s))
    ELSE <<SubSeq(s, 1, 1)>> \o tokenizer_tokenize(Tail(s))

\* [0-9][0-9_]*
IsDigitRun(t) ==
    /\ t # <<>> /\ t[1] \in Digits
    /\ \A i \in 1..Len(t) : t[i] \in Digits \cup {"_"}

\* (?:[0-9][0-9_]*)?\.?([0-9][0-9_]*)
IsDecimal(t) ==
    \/ IsDigitRun(t)
    \/ \E k \in 1..Len(t) :
        /\ t[k] = "."
        /\ k = 1 \/ IsDigitRun(SubSeq(t, 1, k - 1))
        /\ IsDigitRun(Suffix(t, k + 1))

\* 0b[0-1_]+, 0o[0-7_]+, 0x[0-9A-Fa-f_]+
IsPrefixed(t, letter, digits) ==
    /\ Len(t) >= 3 /\ t[1] = "0" /\ t[2] = letter
    /\ \A i \in 3..Len(t) : t[i] \in digits \cup {"_"}

IsNumber(w) ==
    LET t == IF w # <<>> /\ w[1] \in {"-", "+"} THEN Tail(w) ELSE w
    IN  \/ IsDecimal(t)
        \/ IsPrefixed(t, "b", {"0", "1"})
        \/ IsPrefixed(t, "o", {"0", "1", "2", "3", "4", "5", "6", "7"})
        \/ IsPrefixed(t, "x", Digits \cup {"A", "B", "C", "D", "E", "F",
                                           "a", "b", "c", "d", "e", "f"})

\* the longest Number at the start of r (0: none)
NumberLen(r) == Max({0} \cup {n \in 1..Len(r) : IsNumber(SubSeq(r, 1, n))})

\* //.*  #.*  --.*  %.*
LineCommentStarts == { <<"/", "/">>, <<"#">>, <<"-", "-">>, <<"%">> }
LineCommentLen(r) ==
    IF \E p \in LineCommentStarts : StartsWith(r, p) THEN RunLen(r, NotNewline) ELSE 0

\* tokens that run to a closing sequence: block comments and block strings
q2 == "\""
BlockTokens ==
    { << <<"/", "*">>, <<"*", "/">> >>, << <<"{", "-">>, <<"-", "}">> >>,
      << <<"(", "*">>, <<"*", ")">> >>, << <<"<", "!", "-", "-">>, <<"-", "-", ">">> >>,
      << <<q2, q2, q2>>, <<q2, q2, q2>> >>, << <<"'", "'", "'">>, <<"'", "'", "'">> >> }
\* string literals that end on their line
LineQuotes == {q2, "'"}

\* maybe_block_token: how far past the opener the token runs
BlockBump(rest, end_seq) ==
    LET n == Len(end_seq)
        ends == {k \in n..Len(rest) : SubSeq(rest, k - n + 1, k) = end_seq}
    IN  IF ends = {} THEN 0 ELSE Min(ends)

\* maybe_line_token: how far past the opening quote the token runs
LineBump(rest, ending_char) ==
    LET stops == {k \in 1..Len(rest) :
                    \/ rest[k] = ending_char /\ (k = 1 \/ rest[k - 1] # "\\")
                    \/ rest[k] = "\n"}
    IN  IF stops = {} \/ rest[Min(stops)] = "\n" THEN 0 ELSE Min(stops)

\* the length of the longest comment or string token at the start of r, with
\* what its callback bumps (0: none)
DelimitedLen(r) ==
    LET blocks == {b \in BlockTokens : StartsWith(r, b[1])}
    IN  IF blocks # {}
        THEN LET b == CHOOSE b \in blocks : \A c \in blocks : Len(c[1]) <= Len(b[1])
             IN  Len(b[1]) + BlockBump(Suffix(r, Len(b[1]) + 1), b[2])
        ELSE IF r[1] \in LineQuotes THEN 1 + LineBump(Tail(r), r[1])
        ELSE 0

\* polyglot_tokenizer::get_key_tokens: the longest token wins and Ident and
\* Symbol lose a tie; only Ident and Symbol slices are kept
RECURSIVE get_key_tokens(_)
get_key_tokens(s) ==
    IF s = <<>> THEN <<>>
    ELSE LET ident == IF IsWordChar(s[1]) THEN RunLen(s, IsWordChar) ELSE 0
             dropped == Max({NumberLen(s), LineCommentLen(s), DelimitedLen(s)})
         IN  IF dropped > 0 /\ dropped >= ident
             THEN get_key_tokens(Suffix(s, dropped + 1))
             ELSE IF ident > 0
                  THEN <<SubSeq(s, 1, ident)>> \o get_key_tokens(Suffix(s, ident + 1))
             ELSE IF IsLexSpace(s[1]) THEN get_key_tokens(Tail(s))
             ELSE <<SubSeq(s, 1, 1)>> \o get_key_tokens(Tail(s))

\* the tokens classify scores for a text, and the tokens train_classifier
\* counts for it
ScoredTokens(text) ==
    SelectSeq(tokenizer_tokenize(text), LAMBDA t : Len(t) <= MAX_TOKEN_BYTES)
CountedTokens(text) ==
    SelectSeq(get_key_tokens(text), LAMBDA t : Len(t) <= MAX_TOKEN_BYTES)

MaxTextLen == 4
TextChars == {"a", "5", q2, "#", "-", ";", " ", "\n"}

InitTokens ==
    /\ IsState(Idle)
    /\ \E text \in SeqsUpTo(TextChars, MaxTextLen) :
            unit = [op |-> "tokens", returned |-> FALSE, text |-> text,
                    scored |-> <<>>, counted |-> <<>>]

CallTokenizers ==
    /\ unit.op = "tokens" /\ ~unit.returned
    /\ unit' = [unit EXCEPT !.returned = TRUE,
                            !.scored = ScoredTokens(unit.text),
                            !.counted = CountedTokens(unit.text)]
    /\ UNCHANGED DetectVars

NextTokens == CallTokenizers

SpecTokens == InitTokens /\ [][NextTokens]_vars

\* ---- the generated tables (bin/codegen.rs) and detect on them

\* one entry of languages.yml
LanguageDTO(name, filenames, interpreters, extensions) ==
    [name |-> name, filenames |-> filenames, interpreters |-> interpreters,
     extensions |-> extensions]

\* for (language_name, language) in languages.iter(), for key in its keys:
\* the (key, language_name) pairs in the order they are met
KeyPairs(languages, KeysOf(_)) ==
    Concat([i \in 1..Len(languages) |->
                [j \in 1..Len(KeysOf(languages[i])) |->
                    <<KeysOf(languages[i])[j], languages[i].name>>]])

\* temp_map: entry.push(language_name), or insert(key, vec![language_name])
RECURSIVE GroupByKey(_, _)
GroupByKey(temp_map, pairs) ==
    IF pairs = <<>> THEN temp_map
    ELSE LET key == Head(pairs)[1]
             language_name == Head(pairs)[2]
             pushed ==
                IF HasKey(temp_map, key)
                THEN [i \in 1..Len(temp_map) |->
                        IF temp_map[i][1] = key
                        THEN <<key, Append(temp_map[i][2], language_name)>>
                        ELSE temp_map[i]]
                ELSE Append(temp_map, <<key, <<language_name>> >>)
         IN  GroupByKey(pushed, Tail(pairs))

write_language_list(languages) == [i \in 1..Len(languages) |-> languages[i].name]

\* the catalog with entries only for the languages that have extensions
write_language_info_with_extensions(languages) ==
    LET kept == SelectSeq(languages, LAMBDA l : l.extensions # <<>>)
    IN  [i \in 1..Len(kept) |-> <<kept[i].name, [name |-> kept[i].name]>>]

\* LANGUAGE_INFO: one entry per key of languages.yml
write_language_info(languages) ==
    [i \in 1..Len(languages) |-> <<languages[i].name, [name |-> languages[i].name]>>]

create_filename_map(languages) == KeyPairs(languages, LAMBDA l : l.filenames)

create_interpreter_map(languages) ==
    GroupByKey(<<>>, KeyPairs(languages, LAMBDA l : l.interpreters))

create_extension_map(languages) ==
    GroupByKey(<<>>, KeyPairs(languages,
        LAMBDA l : [j \in 1..Len(l.extensions) |-> to_ascii_lowercase(l.extensions[j])]))

\* main: the tables included by the library; token_logs is what
\* train_classifier wrote for the sample corpus
GeneratedTables(languages, heuristics, token_logs) ==
    [LANGUAGES |-> write_language_list(languages),
     LANGUAGE_INFO |-> write_language_info(languages),
     FILENAMES |-> create_filename_map(languages),
     INTERPRETERS |-> create_interpreter_map(languages),
     EXTENSIONS |-> create_extension_map(languages),
     DISAMBIGUATIONS |-> create_disambiguation_heuristics_map(heuristics),
     TOKEN_LOG_PROBABILITIES |-> token_logs]

\* get_extension over a given EXTENSIONS
get_extension_of(extensions, name) ==
    LET stripped == IF StartsWith(name, <<".">>) THEN Tail(name) ELSE name
        lowered == to_ascii_lowercase(stripped)
        hits == {pos \in 1..Len(lowered) :
                    lowered[pos] = "." /\ HasKey(extensions, Suffix(lowered, pos))}
    IN  IF hits = {} THEN Nil
        ELSE Suffix(lowered, CHOOSE pos \in hits : \A q \in hits : pos <= q)

\* get_languages over a given DISAMBIGUATIONS
get_languages_of(disambiguations, ext, cands, text) ==
    IF ~HasKey(disambiguations, ext) THEN <<>>
    ELSE LET rules == SelectSeq(Get(disambiguations, ext),
                                LAMBDA rule : RuleApplies(rule, cands))
             hits == {i \in 1..Len(rules) : RuleMatches(rules[i], text)}
         IN  IF hits = {} THEN <<>>
             ELSE rules[CHOOSE i \in hits : \A j \in hits : i <= j].languages

\* classify over a given LANGUAGES and TOKEN_LOG_PROBABILITIES
classify_of(tables, text, cands) ==
    LET scoring == IF Len(cands) = 0 THEN tables.LANGUAGES ELSE cands
        tokens == SelectSeq(tokenize(text), LAMBDA t : Len(t) <= MAX_TOKEN_BYTES)
        scored ==
            SortByScore([i \in 1..Len(scoring) |->
                [language |-> scoring[i],
                 score |-> IF HasKey(tables.TOKEN_LOG_PROBABILITIES, scoring[i])
                           THEN SumLogProbs(Get(tables.TOKEN_LOG_PROBABILITIES, scoring[i]),
                                            tokens)
                           ELSE NEG_INFINITY]])
    IN  IF scored = <<>> THEN PANIC ELSE scored[1].language

\* lib.rs 175-194 over given tables
DecideByContent(tables, ext, cands, text) ==
    LET left == IF Len(cands) > 1 /\ ext # Nil
                THEN filter_candidates(cands,
                        get_languages_of(tables.DISAMBIGUATIONS, ext, cands, text))
                ELSE cands
    IN  IF Len(left) = 0 THEN OkNone
        ELSE IF Len(left) = 1 THEN Detection("Heuristics", left[1])
        ELSE Detection("Classifier", classify_of(tables, text, left))

\* lib.rs 157-171 over given tables, then the stages on the content
DecideByFile(tables, ext, cands, f) ==
    IF ~f.exists THEN Err("open")
    ELSE LET shebang == get_languages_from_shebang(f.items)
             found == IF shebang.looked_up # Nil
                            /\ HasKey(tables.INTERPRETERS, shebang.looked_up)
                      THEN Get(tables.INTERPRETERS, shebang.looked_up)
                      ELSE <<>>
             left == filter_candidates(cands, found)
         IN  IF ~shebang.ok THEN Err("read_line")
             ELSE IF Len(left) = 1 THEN Detection("Shebang", left[1])
             ELSE IF f.fault = "seek" THEN Err("seek")
             ELSE IF f.fault = "read" \/ \E i \in 1..Len(f.items) : ~LineIsOk(f.items[i])
                  THEN Err("read_to_string")
             ELSE DecideByContent(tables, ext, left, [rx |-> f.rx, tokens |-> f.tokens])

\* detect (lib.rs 136-195) with the tables a run of codegen generated
detect_of(tables, path, f) ==
    IF path = NoFileName THEN OkNone
    ELSE IF path # NonUtf8FileName /\ HasKey(tables.FILENAMES, path)
         THEN Detection("Filename", Get(tables.FILENAMES, path))
    ELSE LET ext == IF path = NonUtf8FileName THEN Nil
                    ELSE get_extension_of(tables.EXTENSIONS, path)
             cands == IF ext # Nil /\ HasKey(tables.EXTENSIONS, ext)
                      THEN Get(tables.EXTENSIONS, ext) ELSE <<>>
         IN  IF Len(cands) = 1 THEN Detection("Extension", cands[1])
             ELSE DecideByFile(tables, ext, cands, f)

\* languages.yml: up to MaxYmlLanguages of these entries, in any iteration order
MaxYmlLanguages == 3
y_c == LanguageDTO("C", <<>>, <<>>, <<x_c, x_h>>)
y_cpp == LanguageDTO("C++", <<>>, <<>>, << <<".", "H">> >>)
y_shell == LanguageDTO("Shell", <<>>, <<i_sh>>, <<>>)
y_abuild == LanguageDTO("Alpine Abuild", <<fn_APKBUILD>>, <<i_sh>>, <<>>)
YmlEntries == {y_c, y_cpp, y_shell, y_abuild}
LanguagesYmls ==
    {q \in SeqsUpTo(YmlEntries, MaxYmlLanguages) :
        \A i \in 1..Len(q) : \A j \in 1..Len(q) : q[i] = q[j] => i = j}

\* heuristics.yml: none, the one of the model (which names languages that
\* languages.yml may lack), and one whose first .h rule has no pattern
h_objc_first == << [extensions |-> <<x_h>>,
                    rules |-> << Rule(<<"Objective-C">>, NoPattern) >>] >>
HeuristicsYmls == { <<>>, HeuristicsYml, h_objc_first }

\* what the trainer wrote: nothing, or the table of the model (which has
\* languages that languages.yml may lack)
TokenLogs == { <<>>, TOKEN_LOG_PROBABILITIES }

CatalogPaths ==
    { <<"a", ".", "h">>, <<"A", ".", "H">>, <<"a", ".", "c">>, fn_APKBUILD, <<"a">> }
CatalogFiles ==
    {File(TRUE, "none", items, rx, tokens) :
        items \in {<<>>, <<l_sh>>, <<l_python>>},
        rx \in {[re \in Regexes |-> "nomatch"], [re \in Regexes |-> "match"]},
        tokens \in {<<t_brace>>, <<t_hash, t_fn>>}}

InitCatalog ==
    /\ IsState(Idle)
    /\ \E languages \in LanguagesYmls, heuristics \in HeuristicsYmls,
          token_logs \in TokenLogs, path \in CatalogPaths, f \in CatalogFiles :
            unit = [op |-> "catalog", phase |-> "sources", languages |-> languages,
                    heuristics |-> heuristics, token_logs |-> token_logs,
                    tables |-> GeneratedTables(<<>>, <<>>, <<>>),
                    path |-> path, file |-> f, out |-> Pending]

\* cargo run --bin codegen
RunCodegen ==
    /\ unit.op = "catalog" /\ unit.phase = "sources"
    /\ unit' = [unit EXCEPT !.phase = "generated",
                            !.tables = GeneratedTables(unit.languages, unit.heuristics,
                                                       unit.token_logs)]
    /\ UNCHANGED DetectVars

\* detect(path) of the library built with the generated tables
CallDetectOf ==
    /\ unit.op = "catalog" /\ unit.phase = "generated"
    /\ unit' = [unit EXCEPT !.phase = "detected",
                            !.out = detect_of(unit.tables, unit.path, unit.file)]
    /\ UNCHANGED DetectVars

NextCatalog == RunCodegen \/ CallDetectOf

SpecCatalog == InitCatalog /\ [][NextCatalog]_vars

\* ---- get_language_breakdown

\* path segments
d_src == <<"s", "r", "c">>
d_docs == <<"D", "o", "c", "s">>
d_node_modules == <<"n","o","d","e","_","m","o","d","u","l","e","s">>
n_a_c == <<"a", ".", "c">>
n_a_h == <<"a", ".", "h">>
n_a_rs == <<"a", ".", "r", "s">>
n_readme_c == <<"R", "E", "A", "D", "M", "E", ".", "c">>

\* filters/documentation.rs: the directory names d of the globs !**/d/**
DocumentationDirs ==
    {
      <<"D","o","c","s">>, <<"d","o","c","s">>, <<"D","o","c">>, <<"d","o","c">>,
      <<"D","o","c","u","m","e","n","t","a","t","i","o","n">>,
      <<"d","o","c","u","m","e","n","t","a","t","i","o","n">>,
      <<"G","r","o","o","v","y","d","o","c">>, <<"g","r","o","o","v","y","d","o","c">>,
      <<"J","a","v","a","d","o","c">>, <<"j","a","v","a","d","o","c">>, <<"M","a","n">>,
      <<"m","a","n">>, <<"E","x","a","m","p","l","e","s">>,
      <<"e","x","a","m","p","l","e","s">>, <<"D","e","m","o">>, <<"d","e","m","o">>,
      <<"D","e","m","o","s">>, <<"d","e","m","o","s">>, <<"S","a","m","p","l","e">>,
      <<"s","a","m","p","l","e">>, <<"S","a","m","p","l","e","s">>,
      <<"s","a","m","p","l","e","s">>
    }
\* filters/documentation.rs: !**/inst/doc/**
DocumentationNested == << <<"i","n","s","t">>, <<"d","o","c">> >>
\* filters/documentation.rs: the prefixes p of the globs !**/p*
DocumentationPrefixes ==
    {
      <<"C","H","A","N","G","E">>, <<"C","H","A","N","G","E","S">>,
      <<"C","H","A","N","G","E","L","O","G">>,
      <<"C","O","N","T","R","I","B","U","T","I","N","G">>,
      <<"C","O","P","Y","I","N","G">>, <<"I","N","S","T","A","L","L">>,
      <<"L","I","C","E","N","C","E">>, <<"L","I","C","E","N","S","E">>,
      <<"L","i","c","e","n","c","e">>, <<"L","i","c","e","n","s","e">>,
      <<"l","i","c","e","n","c","e">>, <<"l","i","c","e","n","s","e">>,
      <<"R","E","A","D","M","E">>, <<"R","e","a","d","m","e">>,
      <<"r","e","a","d","m","e">>
    }
\* add_vendor_override: the vendor directories
VendorDirs == { d_node_modules }

\* the overrides tell the walker to ignore the path: it lies under an excluded
\* directory, or one of its segments begins with an excluded prefix
Overridden(path) ==
    \/ \E i \in 1..(Len(path) - 1) : path[i] \in DocumentationDirs \cup VendorDirs
    \/ \E i \in 1..(Len(path) - 2) :
            <<path[i], path[i + 1]>> = DocumentationNested
    \/ \E i \in 1..Len(path) : \E prefix \in DocumentationPrefixes :
            StartsWith(path[i], prefix)

\* one entry of the tree: is_dir, whether the walker can read it (otherwise it
\* hands the visitor an Err), and the file behind it
WalkEntry(path, is_dir, readable, f) ==
    [path |-> path, is_dir |-> is_dir, readable |-> readable, file |-> f]

TextFile(rx, tokens) == File(TRUE, "none", <<l_text>>, rx, tokens)
NoMatch == [re \in Regexes |-> "nomatch"]

e_src_c == WalkEntry(<<d_src, n_a_c>>, FALSE, TRUE, TextFile(NoMatch, <<t_hash>>))
e_h == WalkEntry(<<n_a_h>>, FALSE, TRUE, TextFile(NoMatch, <<t_hash>>))
e_rs == WalkEntry(<<n_a_rs>>, FALSE, TRUE, TextFile(NoMatch, <<t_fn, t_brace>>))
e_none == WalkEntry(<< <<"a">> >>, FALSE, TRUE, TextFile(NoMatch, <<t_fn>>))
e_bad == WalkEntry(<< <<"A", ".", "H">> >>, FALSE, TRUE,
                   File(TRUE, "none", <<l_bad>>, NoMatch, <<>>))
e_docs_c == WalkEntry(<<d_docs, n_a_c>>, FALSE, TRUE, TextFile(NoMatch, <<t_hash>>))
e_readme == WalkEntry(<<n_readme_c>>, FALSE, TRUE, TextFile(NoMatch, <<t_hash>>))
e_vendor_c == WalkEntry(<<d_node_modules, n_a_c>>, FALSE, TRUE,
                        TextFile(NoMatch, <<t_hash>>))
e_dir == WalkEntry(<<d_src>>, TRUE, TRUE, TextFile(NoMatch, <<>>))
e_unreadable == WalkEntry(<< <<"x", ".", "c">> >>, FALSE, FALSE,
                          TextFile(NoMatch, <<>>))

WalkEntries ==
    { e_src_c, e_h, e_rs, e_none, e_bad, e_docs_c, e_readme, e_vendor_c, e_dir,
      e_unreadable }

MaxWalkEntries == 3
MaxThreads == 2
Trees == {tree \in SUBSET WalkEntries : Cardinality(tree) <= MaxWalkEntries}

\* what the walker hands to the visitors: the entries the overrides let through
Walked(tree) == {e \in tree : ~Overridden(e.path)}

\* a worker between two calls of the visitor
Waiting == [at |-> "waiting"]
\* a worker inside detect(&path), at detect state d
Detecting(path, d) == [at |-> "detect", path |-> path, d |-> d]

\* language_breakdown.insert(language, vec![(detection, file)])
Tally_overwrite(language_breakdown, message) ==
    LET language == message.detection.language
    IN  IF HasKey(language_breakdown, language)
        THEN [i \in 1..Len(language_breakdown) |->
                IF language_breakdown[i][1] = language
                THEN <<language, <<message>> >>
                ELSE language_breakdown[i]]
        ELSE Append(language_breakdown, <<language, <<message>> >>)

\* language_breakdown.entry(language).or_insert_with(Vec::new).push(..)
Tally(language_breakdown, message) ==
    LET language == message.detection.language
    IN  IF HasKey(language_breakdown, language)
        THEN [i \in 1..Len(language_breakdown) |->
                IF language_breakdown[i][1] = language
                THEN <<language, Append(language_breakdown[i][2], message)>>
                ELSE language_breakdown[i]]
        ELSE Append(language_breakdown, <<language, <<message>> >>)

\* tx.send((detection, path)).unwrap(): the pair is buffered while the receiver
\* lives; with the receiver gone send is an Err and unwrap panics
Send(u, message) ==
    IF u.rx THEN [u EXCEPT !.channel = Append(u.channel, message)]
    ELSE [u EXCEPT !.panicked = TRUE]

\* walker.run returning with the original sender kept
AfterRun_tx_kept(u) == [u EXCEPT !.phase = "collecting", !.clones = 0]

\* walker.run has returned, the visitors and their clones of tx are gone;
\* drop(tx)
AfterRun(u) == [u EXCEPT !.phase = "collecting", !.clones = 0, !.tx = FALSE]

\* get_language_breakdown is called on a tree with num_threads workers; run has
\* built one visitor a thread, each with its clone of tx
InitBreakdown ==
    /\ IsState(Idle)
    /\ \E tree \in Trees, num_threads \in 1..MaxThreads :
            unit = [op |-> "breakdown", phase |-> "walking", tree |-> tree,
                    queue |-> Walked(tree),
                    workers |-> [w \in 1..num_threads |-> Waiting],
                    channel |-> <<>>, language_breakdown |-> <<>>,
                    tx |-> TRUE, clones |-> num_threads, rx |-> TRUE,
                    panicked |-> FALSE]

\* the visitor is called with an entry of the walk: an Err and a directory are
\* passed over (Continue), anything else enters detect
WorkerVisit(w) ==
    /\ unit.op = "breakdown" /\ unit.phase = "walking"
    /\ unit.workers[w] = Waiting
    /\ \E e \in unit.queue :
            unit' = [unit EXCEPT
                        !.queue = unit.queue \ {e},
                        !.workers[w] =
                            IF ~e.readable \/ e.is_dir THEN Waiting
                            ELSE Detecting(e.path,
                                           DetectStart(e.path[Len(e.path)], e.file))]
    /\ UNCHANGED DetectVars

\* one stage of the worker's detect(&path)
WorkerDetect(w) ==
    /\ unit.op = "breakdown" /\ unit.phase = "walking"
    /\ unit.workers[w].at = "detect"
    /\ unit.workers[w].d.pc # "done"
    /\ unit' = [unit EXCEPT !.workers[w].d = DetectStep(unit.workers[w].d)]
    /\ UNCHANGED DetectVars

\* detect has returned: if let Ok(Some(detection)) the pair is sent; Continue
WorkerSend(w) ==
    /\ unit.op = "breakdown" /\ unit.phase = "walking"
    /\ unit.workers[w].at = "detect"
    /\ unit.workers[w].d.pc = "done"
    /\ ~unit.panicked
    /\ LET detection == unit.workers[w].d.result
           waiting == [unit EXCEPT !.workers[w] = Waiting]
       IN  unit' = IF detection.kind = "Ok" /\ detection # OkNone
                   THEN Send(waiting, [detection |-> detection,
                                       path |-> unit.workers[w].path])
                   ELSE waiting
    /\ UNCHANGED DetectVars

\* walker.run returns when nothing is left and every worker is done; drop(tx)
WalkerJoin ==
    /\ unit.op = "breakdown" /\ unit.phase = "walking"
    /\ unit.queue = {}
    /\ \A w \in DOMAIN unit.workers : unit.workers[w] = Waiting
    /\ ~unit.panicked
    /\ unit' = AfterRun(unit)
    /\ UNCHANGED DetectVars

\* one turn of for (detection, file) in rx
Collect ==
    /\ unit.op = "breakdown" /\ unit.phase = "collecting"
    /\ unit.channel # <<>>
    /\ unit' = [unit EXCEPT !.channel = Tail(unit.channel),
                            !.language_breakdown =
                                Tally(unit.language_breakdown, Head(unit.channel))]
    /\ UNCHANGED DetectVars

\* the channel is empty and has no sender left: recv is an Err, the loop ends
\* and rx goes with it; with a sender left recv blocks
ReturnBreakdown ==
    /\ unit.op = "breakdown" /\ unit.phase = "collecting"
    /\ unit.channel = <<>>
    /\ ~unit.tx /\ unit.clones = 0
    /\ unit' = [unit EXCEPT !.phase = "returned", !.rx = FALSE]
    /\ UNCHANGED DetectVars

NextBreakdown ==
    \/ \E w \in DOMAIN unit.workers : WorkerVisit(w)
    \/ \E w \in DOMAIN unit.workers : WorkerDetect(w)
    \/ \E w \in DOMAIN unit.workers : WorkerSend(w)
    \/ WalkerJoin
    \/ Collect
    \/ ReturnBreakdown

SpecBreakdown == InitBreakdown /\ [][NextBreakdown]_vars

\* worker w is inside detect, with a stage of it left to run
InDetect(w) ==
    /\ unit.op = "breakdown" /\ unit.phase = "walking"
    /\ w \in DOMAIN unit.workers
    /\ unit.workers[w].at = "detect" /\ unit.workers[w].d.pc # "done"

\* the step of worker w out of a state where InDetect(w) holds
DetectAdvances(w) == InDetect(w) /\ unit'.workers[w] # unit.workers[w]

\* The threads of the walk and the caller's thread are scheduled: a step that
\* stays possible is taken in the end. For the stages of detect the weak
\* fairness of WorkerDetect(w) is written out, InDetect(w) being what enables it.
FairBreakdown ==
    /\ SpecBreakdown
    /\ WF_vars(\E w \in DOMAIN unit.workers : WorkerVisit(w))
    /\ \A w \in 1..MaxThreads : []<>(~InDetect(w)) \/ []<><<DetectAdvances(w)>>_vars
    /\ WF_vars(\E w \in DOMAIN unit.workers : WorkerSend(w))
    /\ WF_vars(WalkerJoin)
    /\ WF_vars(Collect)
    /\ WF_vars(ReturnBreakdown)

\* ---- polyglot_tokenizer: Tokenizer (tokenizer.rs)

\* char::is_whitespace, is_alphabetic, is_numeric, is_alphanumeric on ASCII
\* characters; every character of the model is one byte long, so that byte
\* offsets and character counts agree
is_whitespace(c) == c \in {" ", "\n", "\r", "\t"}
is_alphabetic(c) == \E i \in 1..26 : Upper[i] = c \/ Lower[i] = c
is_numeric(c) == c \in Digits
is_alphanumeric(c) == is_alphabetic(c) \/ is_numeric(c)
is_ascii_hexdigit(c) == c \in Digits \cup {"a","b","c","d","e","f","A","B","C","D","E","F"}

\* the character U+0060, which a string of this notation cannot hold
backtick == "<backtick>"

\* Option::None of an (index, char)
NoChar == <<-1, "">>

\* Tokenizer::tokens: offsets are counted from 0 as in the source; chars is the
\* offset of the next character of the CharIndices iterator
Tokens(text) ==
    [backlog |-> <<>>, chars |-> 0, content |-> text, current_token_idx |-> 0]

\* the characters advance will yield, in order: the backlog, then chars
UpcomingChars(t) ==
    [i \in 1..Len(t.backlog) |-> t.backlog[i][2]]
        \o SubSeq(t.content, t.chars + 1, Len(t.content))

peek(t) ==
    IF t.backlog # <<>> THEN Head(t.backlog)
    ELSE IF t.chars < Len(t.content) THEN <<t.chars, t.content[t.chars + 1]>>
    ELSE NoChar

\* advance called n times
advance(t, n) ==
    IF n <= Len(t.backlog)
    THEN [t EXCEPT !.backlog = SubSeq(t.backlog, n + 1, Len(t.backlog))]
    ELSE [t EXCEPT !.backlog = <<>>,
                   !.chars = Min({Len(t.content), t.chars + n - Len(t.backlog)})]

\* what take_if returns when its condition holds for n characters and then
\* fails or the input ends
take_if_end(t, n) ==
    IF n < Len(t.backlog) THEN t.backlog[n + 1][1]
    ELSE Min({Len(t.content), t.chars + n - Len(t.backlog)})

\* push_backlog putting the characters behind those already in the backlog
push_backlog_behind(t, new_chars) == [t EXCEPT !.backlog = t.backlog \o new_chars]

push_backlog(t, new_chars) == [t EXCEPT !.backlog = new_chars \o t.backlog]

\* the range start..end of a slice of content
Span(start, end) == <<start, end>>
\* &content[start..end] panics on a range that is not one of content
IsSpan(text, span) == 0 <= span[1] /\ span[1] <= span[2] /\ span[2] <= Len(text)
slice(text, span) ==
    IF IsSpan(text, span) THEN SubSeq(text, span[1] + 1, span[2]) ELSE <<PANIC>>
\* slice(start, end).char_indices().map(|(idx, ch)| (idx + start, ch))
char_indices(text, start, end) ==
    [i \in 1..(end - start) |-> <<start + i - 1, text[start + i]>>]

\* a token holds the ranges of its slices
Token(kind, spans) == [kind |-> kind, spans |-> spans]
NoToken == Token("None", <<>>)
Panicked == Token(PANIC, <<>>)
Yield(t, token) == [t |-> t, token |-> token]

\* how many of the characters r[i], r[i+1], .. numeric_closure takes
RECURSIVE numeric_closure(_, _, _)
numeric_closure(r, i, seen_decimal) ==
    IF i > Len(r) THEN 0
    ELSE IF is_numeric(r[i]) \/ r[i] = "_"
         THEN 1 + numeric_closure(r, i + 1, seen_decimal)
    ELSE IF r[i] = "." /\ ~seen_decimal
         THEN 1 + numeric_closure(r, i + 1, TRUE)
    ELSE 0

\* string_closure without is_escaped
RECURSIVE string_closure_unescaped(_, _, _, _)
string_closure_unescaped(r, i, quote_char, is_escaped) ==
    IF i > Len(r) THEN 0
    ELSE IF ~(r[i] = quote_char \/ r[i] = "\n")
         THEN 1 + string_closure_unescaped(r, i + 1, quote_char, FALSE)
    ELSE 0

\* how many of the characters r[i], r[i+1], .. string_closure takes
RECURSIVE string_closure(_, _, _, _)
string_closure(r, i, quote_char, is_escaped) ==
    IF i > Len(r) THEN 0
    ELSE IF ~((r[i] = quote_char /\ ~is_escaped) \/ r[i] = "\n")
         THEN 1 + string_closure(r, i + 1, quote_char, r[i] = "\\" /\ ~is_escaped)
    ELSE 0

\* CircularQueue: push drops the oldest item once the capacity is reached,
\* iter goes from the most recently pushed item to the oldest
CircularPush(queue, capacity, ch) ==
    IF Len(queue) < capacity THEN Append(queue, ch) ELSE Append(Tail(queue), ch)
CircularIter(queue) == [i \in 1..Len(queue) |-> queue[Len(queue) + 1 - i]]

\* the closure of take_block over r[i], r[i+1], ..: the characters taken and
\* prev_chars at the end
RECURSIVE take_block_closure(_, _, _, _)
take_block_closure(r, i, prev_chars, end_sequence) ==
    IF i > Len(r) THEN [taken |-> i - 1, prev_chars |-> prev_chars]
    ELSE IF CircularIter(prev_chars) = end_sequence
         THEN take_block_closure(r, i + 1,
                                 CircularPush(prev_chars, Len(end_sequence), r[i]),
                                 end_sequence)
    ELSE [taken |-> i - 1, prev_chars |-> prev_chars]

\* take_block: Ok((content, end_sequence)) as the two ranges, or Err(Symbol)
\* with the characters after the first one of the token back in the backlog
take_block(t, content_idx, end_sequence) ==
    LET run == take_block_closure(UpcomingChars(t), 1, <<>>, end_sequence)
        end == take_if_end(t, run.taken)
        after == advance(t, run.taken)
        backlog_start == t.current_token_idx + 1
    IN  IF CircularIter(run.prev_chars) = end_sequence
        THEN [t |-> after, ok |-> TRUE,
              token |-> Token("Ok", <<Span(content_idx, end - Len(end_sequence)),
                                      Span(end - Len(end_sequence), end)>>)]
        ELSE IF ~IsSpan(t.content, Span(backlog_start, end))
        THEN [t |-> after, ok |-> FALSE, token |-> Panicked]
        ELSE [t |-> push_backlog(after, char_indices(t.content, backlog_start, end)),
              ok |-> FALSE,
              token |-> Token("Symbol", <<Span(t.current_token_idx, backlog_start)>>)]

\* block_comment, called with the first character of start_sequence consumed
block_comment(t, start_sequence, end_sequence) ==
    LET r == UpcomingChars(t)
        token_start == t.current_token_idx
        \* the characters of start_sequence[1..] found in a row
        matched == Max({k \in 0..(Len(start_sequence) - 1) :
                            /\ k <= Len(r)
                            /\ \A j \in 1..k : r[j] = start_sequence[j + 1]})
        symbol == SubSeq(start_sequence, 1, matched + 1)
    IN  IF matched < Len(start_sequence) - 1
        THEN Yield(push_backlog(advance(t, matched),
                                [idx \in 1..matched |->
                                    <<(idx - 1) + token_start, symbol[idx + 1]>>]),
                   Token("Symbol", <<Span(token_start, token_start + 1)>>))
        ELSE LET block == take_block(advance(t, matched),
                                     token_start + Len(start_sequence), end_sequence)
             IN  IF block.ok
                 THEN Yield(block.t,
                            Token("BlockComment",
                                  <<Span(token_start, token_start + Len(start_sequence))>>
                                      \o block.token.spans))
                 ELSE Yield(block.t, block.token)

\* take_if_slice(cond), cond holding for the first n upcoming characters
take_if_slice(t, n, kind) ==
    Yield(advance(t, n), Token(kind, <<Span(t.current_token_idx, take_if_end(t, n))>>))

\* the arms of next that read a line comment: the run of the comment
\* character, eat_non_newline_whitespace, and the rest of the line
line_comment(t, IsOpener(_)) ==
    LET n1 == RunLen(UpcomingChars(t), IsOpener)
        symbol_end == take_if_end(t, n1)
        t1 == advance(t, n1)
        n2 == RunLen(UpcomingChars(t1),
                     LAMBDA c : is_whitespace(c) /\ c # "\n" /\ c # "\r")
        comment_start == take_if_end(t1, n2)
        t2 == advance(t1, n2)
        n3 == RunLen(UpcomingChars(t2), LAMBDA c : c # "\r" /\ c # "\n")
        comment_end == take_if_end(t2, n3)
    IN  Yield(advance(t2, n3),
              Token("LineComment", <<Span(t.current_token_idx, symbol_end),
                                     Span(comment_start, comment_end)>>))

\* the arm of next for a run of one quote character
single_line_string(t, quote_char) ==
    LET token_start == t.current_token_idx
        n == string_closure(UpcomingChars(t), 1, quote_char, FALSE)
        string_end == take_if_end(t, n)
        after == advance(t, n)
        backlog_start == token_start + 1
    IN  IF ~IsSpan(t.content, Span(token_start + 1, string_end))
        THEN Yield(after, Panicked)
        ELSE IF peek(after)[2] = quote_char
        THEN Yield(advance(after, 1),
                   Token("String", <<Span(token_start, token_start + 1),
                                     Span(token_start + 1, string_end),
                                     Span(string_end, string_end + 1)>>))
        ELSE Yield(push_backlog(after,
                                char_indices(t.content, backlog_start, string_end)),
                   Token("Symbol", <<Span(token_start, backlog_start)>>))

\* the arm of next for ", ' and `
quoted(t, quote_char) ==
    LET token_start == t.current_token_idx
        n == RunLen(UpcomingChars(t), LAMBDA c : c = quote_char)
        symbol == Span(token_start, take_if_end(t, n))
        symbol_len == symbol[2] - symbol[1]
        after == advance(t, n)
    IN  IF ~IsSpan(t.content, symbol) THEN Yield(after, Panicked)
        ELSE IF symbol_len = 1 THEN single_line_string(after, quote_char)
        ELSE IF symbol_len = 2
        THEN Yield(after, Token("String", <<Span(token_start, token_start + 1),
                                            Span(token_start + 1, token_start + 1),
                                            Span(token_start + 1, token_start + 2)>>))
        ELSE LET block == take_block(after, token_start + symbol_len,
                                     [i \in 1..symbol_len |-> quote_char])
             IN  IF block.ok
                 THEN Yield(block.t,
                            Token("String",
                                  <<Span(token_start, token_start + symbol_len)>>
                                      \o block.token.spans))
                 ELSE Yield(block.t, block.token)

\* the digits of a number after 0b, 0o and 0x
IsPrefixDigit(prefix, c) ==
    IF prefix = "b" THEN c \in {"1", "0", "_"}
    ELSE IF prefix = "o" THEN c \in {"0", "1", "2", "3", "4", "5", "6", "7", "_"}
    ELSE is_ascii_hexdigit(c) \/ c = "_"

\* the block comment that ch opens
start_sequence(ch) ==
    IF ch = "<" THEN <<"<", "!", "-", "-">>
    ELSE IF ch = "/" THEN <<"/", "*">>
    ELSE IF ch = "{" THEN <<"{", "-">>
    ELSE <<"(", "*">>
end_sequence(ch) ==
    IF ch = "<" THEN <<"-", "-", ">">>
    ELSE IF ch = "/" THEN <<"*", "/">>
    ELSE IF ch = "{" THEN <<"-", "}">>
    ELSE <<"*", ")">>

\* the arm of the match in next that start_new_token's ch and the character
\* after it select
arm_of(ch, ahead) ==
    IF is_alphabetic(ch) \/ ch = "_" THEN "ident"
    ELSE IF ch = "0" THEN IF ahead \in {"b", "o", "x"} THEN "prefixed" ELSE "number"
    ELSE IF ch = "-" \/ ch = "+"
         THEN IF is_numeric(ahead) THEN "number"
              ELSE IF ahead = "-" /\ ch = "-" THEN "line comment"
              ELSE "symbol"
    ELSE IF is_numeric(ch) THEN "number"
    ELSE IF ch = "/"
         THEN IF ahead = "/" THEN "line comment"
              ELSE IF ahead = "*" THEN "block comment"
              ELSE "symbol"
    ELSE IF ch = "{" THEN IF ahead = "-" THEN "block comment" ELSE "symbol"
    ELSE IF ch = "(" THEN IF ahead = "*" THEN "block comment" ELSE "symbol"
    ELSE IF ch = "<" THEN "block comment"
    ELSE IF ch = "#" \/ ch = "%" THEN "line comment"
    ELSE IF ch \in {q2, "'", backtick} THEN "quote"
    ELSE "symbol"

\* the arms of next after start_new_token has yielded ch
next_token(t, ch) ==
    LET r == UpcomingChars(t)
        ahead == peek(t)[2]
        arm == arm_of(ch, ahead)
    IN  CASE arm = "ident" ->
                take_if_slice(t, RunLen(r, LAMBDA c : is_alphanumeric(c) \/ c = "_"),
                              "Ident")
          [] arm = "prefixed" ->
                take_if_slice(advance(t, 1),
                              RunLen(Tail(r), LAMBDA c : IsPrefixDigit(ahead, c)),
                              "Number")
          [] arm = "number" -> take_if_slice(t, numeric_closure(r, 1, FALSE), "Number")
          [] arm = "line comment" -> line_comment(t, LAMBDA c : c = ch)
          [] arm = "block comment" ->
                block_comment(t, start_sequence(ch), end_sequence(ch))
          [] arm = "quote" -> quoted(t, ch)
          [] arm = "symbol" ->
                Yield(t, Token("Symbol", <<Span(t.current_token_idx,
                                                t.current_token_idx + 1)>>))

eat_whitespace(t) == advance(t, RunLen(UpcomingChars(t), is_whitespace))

\* a token whose slice cannot be taken is a panic
Sliced(text, res) ==
    IF \E i \in 1..Len(res.token.spans) : ~IsSpan(text, res.token.spans[i])
    THEN Yield(res.t, Panicked)
    ELSE res

\* start_new_token, with something to start it from
start_new_token(t) == [advance(t, 1) EXCEPT !.current_token_idx = peek(t)[1]]

\* Tokens::next: the iterator afterwards and the token
Tokens_next(t) ==
    LET fed == eat_whitespace(t)
    IN  IF peek(fed) = NoChar THEN Yield(fed, NoToken)
        ELSE Sliced(t.content, next_token(start_new_token(fed), peek(fed)[2]))

\* the slices of a token
TokenText(text, token) ==
    Token(token.kind, [i \in 1..Len(token.spans) |-> slice(text, token.spans[i])])

\* Tokenizer::new(text).tokens().collect(), each token with its slices
RECURSIVE Collect_tokens(_)
Collect_tokens(t) ==
    LET res == Tokens_next(t)
    IN  IF res.token = NoToken THEN <<>>
        ELSE IF res.token = Panicked THEN <<Panicked>>
        ELSE <<TokenText(t.content, res.token)>> \o Collect_tokens(res.t)
Tokenize(text) == Collect_tokens(Tokens(text))

\* the texts tokenized: punctuation of comments, of strings and of numbers
MaxLexLen == 4
CommentChars == {"/", "*", "<", "!", "-", q2, "a"}
StringChars == {q2, "'", "\\", "a", "\n"}
NumberChars == {"-", "+", "5", "a", " "}
LexTexts ==
    SeqsUpTo(CommentChars, MaxLexLen) \cup SeqsUpTo(StringChars, MaxLexLen)
        \cup SeqsUpTo(NumberChars, MaxLexLen)

\* the characters of the text that next has not consumed for good
Remaining(t) == Len(t.backlog) + Len(t.content) - t.chars

\* Tokenizer::new(text).tokens()
InitTokenizer ==
    /\ IsState(Idle)
    /\ \E text \in LexTexts :
            unit = [op |-> "tokenizer", text |-> text, t |-> Tokens(text),
                    yielded |-> <<>>, calls |-> 0, returned |-> FALSE]

\* the state after a call of next that began at offset from and gave res
AfterNext(u, from, res) ==
    [u EXCEPT !.t = res.t,
              !.calls = u.calls + 1,
              !.returned = res.token \in {NoToken, Panicked},
              !.yielded =
                    IF res.token = NoToken THEN u.yielded
                    ELSE Append(u.yielded,
                                [token |-> res.token, from |-> from,
                                 to |-> Len(u.text) - Remaining(res.t)])]

\* one call of Tokens::next; with each token the log keeps the part of the
\* text, from..to, that the call took from the input for it
CallNext ==
    /\ unit.op = "tokenizer" /\ ~unit.returned
    /\ unit' = AfterNext(unit, Len(unit.text) - Remaining(eat_whitespace(unit.t)),
                         Tokens_next(unit.t))
    /\ UNCHANGED DetectVars

NextTokenizer == CallNext

SpecTokenizer == InitTokenizer /\ [][NextTokenizer]_vars

\* ================================================================ claims

\* the elements of prev that also occur in new, in prev's order
RECURSIVE KeptIn(_, _)
KeptIn(prev, new) ==
    IF prev = <<>> THEN <<>>
    ELSE (IF Head(prev) \in ToSet(new) THEN <<Head(prev)>> ELSE <<>>)
         \o KeptIn(Tail(prev), new)

\* ---- C1

\* C1: for a path whose basename is a key of FILENAMES, detect returns
\* Filename(FILENAMES[basename]) whatever the extension and the content, without
\* any file operation (so also when there is no file).
C1_FilenameWins ==
    filename \in Keys(FILENAMES) =>
        /\ io = <<>>
        /\ pc = "done" => result = Detection("Filename", Get(FILENAMES, filename))

\* C1 witness: a known file name with a registered extension and no file behind it
C1_Witness ==
    /\ pc = "done"
    /\ filename = fn_eslintrc
    /\ get_extension(filename) = x_json
    /\ ~file.exists
    /\ result = Detection("Filename", "JSON with Comments")

\* ---- C2

VariantOf(stage) ==
    CASE stage = "extension" -> "Extension"
      [] stage = "shebang" -> "Shebang"
      [] stage = "heuristics" -> "Heuristics"

\* the file operations that go before the result of a stage
IoUpTo(stage) ==
    CASE stage = "extension" -> <<>>
      [] stage = "shebang" -> <<"open", "read_line">>
      [] stage = "heuristics" -> <<"open", "read_line", "seek", "read_to_string">>

\* a stage that leaves `left` decides: its language is returned under its
\* variant, and nothing runs after it
Decides(i, left) ==
    /\ pc = "done"
    /\ result = Detection(VariantOf(ran[i].stage), left[1])
    /\ i = Len(ran)
    /\ io = IoUpTo(ran[i].stage)

NarrowingStages == {"extension", "shebang", "heuristics"}

\* C2 as stated: whenever a stage itself yields a single language, detect
\* returns it with that stage's variant and no later stage runs.
C2_StageYieldDecides ==
    pc = "done" =>
        \A i \in 1..Len(ran) :
            (ran[i].stage \in NarrowingStages /\ Len(ran[i].languages) = 1)
                => Decides(i, ran[i].languages)

\* what a stage leaves of the candidates it was given
LeftBy(entry) ==
    IF entry.given = <<>> \/ entry.stage = "extension" THEN entry.languages
    ELSE IF entry.languages = <<>> \/ ToSet(entry.given) \cap ToSet(entry.languages) = {}
         THEN entry.given
    ELSE KeptIn(entry.given, entry.languages)

\* C2 amended: whenever the candidates left after a stage (the previous
\* candidates filtered by what the stage yields) are a single language, detect
\* returns it with that stage's variant and no later stage runs: no file
\* operation after a deciding extension, no seek, read, heuristics or classifier
\* after a deciding shebang, no classifier after deciding heuristics.
C2_ShortCircuit ==
    \A i \in 1..Len(ran) :
        (ran[i].stage \in NarrowingStages /\ Len(LeftBy(ran[i])) = 1)
            => Decides(i, LeftBy(ran[i]))

\* C2 witness: the shebang narrowed the two languages of .es to one and decided
C2_Witness ==
    /\ pc = "done"
    /\ extension = x_es
    /\ ran[Len(ran)] = Ran("shebang", <<"Erlang", "JavaScript">>, <<"Erlang">>)
    /\ result = Detection("Shebang", "Erlang")
    /\ io = <<"open", "read_line">>

\* ---- C3

\* C3: filter_candidates(prev, new) is new when prev is empty, prev when new is
\* empty, otherwise the elements of prev that occur in new, in prev's order,
\* unless there are none, and then prev; so the result is within prev \cup new
\* and, for non-empty disjoint inputs, it is prev.
C3_FilterCandidates ==
    (unit.op = "filter_candidates" /\ unit.returned) =>
        LET prev == unit.previous_candidates
            new == unit.new_candidates
            out == unit.out
        IN  /\ prev = <<>> => out = new
            /\ (prev # <<>> /\ new = <<>>) => out = prev
            /\ (prev # <<>> /\ new # <<>> /\ ToSet(prev) \cap ToSet(new) # {})
                    => out = KeptIn(prev, new)
            /\ (prev # <<>> /\ new # <<>> /\ ToSet(prev) \cap ToSet(new) = {})
                    => out = prev
            /\ ToSet(out) \subseteq ToSet(prev) \cup ToSet(new)

\* C3 witness: non-empty disjoint inputs, and the previous candidates came back
C3_Witness ==
    /\ unit.op = "filter_candidates" /\ unit.returned
    /\ unit.previous_candidates = <<"Python">>
    /\ unit.new_candidates = <<"JavaScript", "Erlang">>
    /\ unit.out = <<"Python">>

\* ---- C4

\* the suffixes of the lowercased name (one leading '.' dropped) that start at
\* a '.' and are registered
RegisteredSuffixes(name) ==
    LET base == to_ascii_lowercase(IF Len(name) > 0 /\ name[1] = "." THEN Tail(name)
                                   ELSE name)
    IN  {Suffix(base, i) : i \in {j \in 1..Len(base) :
            base[j] = "." /\ Suffix(base, j) \in Keys(EXTENSIONS)}}

\* C4: get_extension returns the longest registered suffix that starts at a '.'
\* of the lowercased name without one leading '.', and None when there is none
\* (a.cmake.in gives .cmake.in, a.x.c gives .c, .cs and a give None).
C4_GetExtension ==
    (unit.op = "get_extension" /\ unit.returned) =>
        LET found == RegisteredSuffixes(unit.filename)
        IN  /\ found = {} <=> unit.out = Nil
            /\ found # {} =>
                    /\ unit.out \in found
                    /\ \A e \in found : Len(e) <= Len(unit.out)
            /\ unit.filename = <<"a">> \o x_cmake_in => unit.out = x_cmake_in
            /\ unit.filename = <<"a", ".", "x", ".", "c">> => unit.out = x_c
            /\ unit.filename \in {x_cs, <<"a">>} => unit.out = Nil

\* C4 witness: a name with two registered suffixes got the longer one
C4_Witness ==
    /\ unit.op = "get_extension" /\ unit.returned
    /\ unit.filename = <<"A", "b">> \o x_cmake_in
    /\ unit.out = x_cmake_in

\* ---- C5

SameButCase(a, b) == to_ascii_lowercase(a) = to_ascii_lowercase(b)

\* C5 as stated: two paths whose basenames differ only in ASCII letter case,
\* with the same file behind them, get the same result.
C5_CaseInsensitive ==
    (pc = "done" /\ filename \in Names) =>
        \A other \in Names :
            SameButCase(other, filename) => detect(other, file) = result

\* C5 amended: two paths whose basenames differ only in ASCII letter case and
\* are not keys of FILENAMES (whose lookup is case-sensitive), with the same
\* file behind them, get the same result.
C5_CaseInsensitiveExtension ==
    (pc = "done" /\ filename \in Names \ Keys(FILENAMES)) =>
        \A other \in Names \ Keys(FILENAMES) :
            SameButCase(other, filename) => detect(other, file) = result

\* C5 witness: A.H was detected by its extension's heuristics, as a.h is
C5_Witness ==
    /\ pc = "done"
    /\ filename = <<"A", ".", "H">>
    /\ extension = x_h
    /\ result.variant = "Heuristics"
    /\ detect(<<"a", ".", "h">>, file) = result

\* ---- C6

\* interpreter words with a minor version, each with its name and major version
VersionedWords ==
    { <<w_python273, i_python2>>, <<w_python26, i_python2>>, <<w_perl60, i_perl6>> }

\* C6: an interpreter with a minor version is looked up in INTERPRETERS under
\* its name with the major version digit kept: python2.7.3 and python2.6 as
\* python2.
C6_MajorVersionKept ==
    (unit.op = "get_languages_from_shebang" /\ unit.returned) =>
        \A v \in VersionedWords :
            unit.items = <<p_bin \o v[1]>> => unit.out.looked_up = v[2]

\* ---- C7

\* the first line is text that was read (though perhaps not valid UTF-8)
HasFirstLine(items) == items # <<>> /\ Head(items) # IO_ERROR

\* nothing but white space follows the last '/' of the line
NoWordAfterLastSlash(line) ==
    \E i \in 1..Len(line) :
        /\ line[i] = "/"
        /\ \A j \in (i + 1)..Len(line) : IsSpace(line[j])

\* the words after the last '/' are env and nothing else
OnlyEnvAfterLastSlash(line) ==
    \E i \in 1..Len(line) :
        /\ line[i] = "/"
        /\ \A j \in (i + 1)..Len(line) : line[j] # "/"
        /\ \E a \in (i + 1)..Len(line) :
            /\ At(line, a, i_env)
            /\ \A j \in ((i + 1)..Len(line)) \ (a..(a + 2)) : IsSpace(line[j])

\* C7: get_languages_from_shebang returns Ok with no language, and never an
\* error, when the input is empty, when the first line does not begin with
\* "#!", when it is exactly "#!", when no word follows its last '/', and when
\* the only word there is env.
C7_EmptyCases ==
    (unit.op = "get_languages_from_shebang" /\ unit.returned) =>
        LET items == unit.items
            empty ==
                \/ items = <<>>
                \/ /\ HasFirstLine(items)
                   /\ \/ ~StartsWith(Head(items), <<"#", "!">>)
                      \/ Head(items) = <<"#", "!">>
                      \/ NoWordAfterLastSlash(Head(items))
                      \/ OnlyEnvAfterLastSlash(Head(items))
        IN  empty => (unit.out.ok /\ unit.out.languages = <<>>)

\* ---- C8

\* the lines after the first (line 1 is the first line after the shebang) that
\* hold exec <word> ... $0 ... $@
ExecAt(items) == {k \in 1..(Len(items) - 1) : \E e \in ExecLines : items[k + 1] = e[1]}
ExecWord(line) == (CHOOSE e \in ExecLines : e[1] = line)[2]

\* C8: when the first word of the interpreter segment is sh, the interpreter
\* looked up is the word of the first exec <word> ... $0 ... $@ line among the
\* four lines after the shebang line, and sh when none of those four lines holds
\* the pattern (also when a later line does); #!/bin/sh followed by
\* exec scala "$0" "$@" yields Scala.
C8_ShExecHack ==
    (/\ unit.op = "get_languages_from_shebang" /\ unit.returned
     /\ unit.items # <<>> /\ Head(unit.items) \in ShFirstLines) =>
        LET near == {k \in ExecAt(unit.items) : k <= 4}
        IN  /\ unit.out.ok
            /\ near # {} =>
                unit.out.looked_up =
                    ExecWord(unit.items[1 + CHOOSE k \in near : \A j \in near : k <= j])
            /\ near = {} => unit.out.looked_up = i_sh
            /\ unit.items = <<l_sh, l_exec_scala>> => unit.out.languages = <<"Scala">>

\* C8 witness: the pattern stands on the fifth line after the shebang line only,
\* and sh was looked up
C8_Witness ==
    /\ unit.op = "get_languages_from_shebang" /\ unit.returned
    /\ unit.items = <<l_sh>> \o Repeat(l_text, 4) \o <<l_exec_scala>>
    /\ unit.out.looked_up = i_sh
    /\ unit.out.languages = <<"Shell">>

\* ---- C9

\* rule i of a rule list has all its languages among the candidates and its
\* pattern (if it has one) matches the content
RuleDecides(rules, i, cands, text) ==
    /\ \A k \in 1..Len(rules[i].languages) : rules[i].languages[k] \in ToSet(cands)
    /\ rules[i].pattern.kind # "None" => matches(rules[i].pattern, text)

\* C9: get_languages returns the empty list for an extension without a rule
\* list; otherwise the languages of the first rule, in list order, whose
\* languages are all candidates and whose pattern matches (no pattern always
\* matches), and the empty list when there is no such rule; the result is
\* always within the candidates.
C9_GetLanguages ==
    (unit.op = "get_languages" /\ unit.returned) =>
        /\ ~HasKey(DISAMBIGUATIONS, unit.extension) => unit.out = <<>>
        /\ HasKey(DISAMBIGUATIONS, unit.extension) =>
            LET rules == Get(DISAMBIGUATIONS, unit.extension)
                deciding == {i \in 1..Len(rules) :
                                RuleDecides(rules, i, unit.candidates, unit.content)}
            IN  /\ deciding = {} => unit.out = <<>>
                /\ deciding # {} =>
                    \E i \in deciding :
                        /\ \A j \in deciding : i <= j
                        /\ unit.out = rules[i].languages
        /\ ToSet(unit.out) \subseteq ToSet(unit.candidates)

\* C9 witness: the Objective-C pattern matches, but Objective-C is no candidate,
\* so its rule is passed over and the next deciding rule (C) gives the result
C9_Witness ==
    /\ unit.op = "get_languages" /\ unit.returned
    /\ unit.extension = x_h
    /\ unit.candidates = <<"C", "C++">>
    /\ unit.content.rx["re1"] = "match"
    /\ unit.content.rx["re2"] = "nomatch" /\ unit.content.rx["re3"] = "nomatch"
    /\ unit.out = <<"C">>

\* ---- C10

\* C10: the rule list generated for .h ends with a rule for C without a
\* pattern, so when the heuristics run for a .h file with C among the
\* candidates they yield a language, detect returns Heuristics of it and the
\* classifier is not called; it is C when no earlier applicable rule matches.
C10_HeaderDefaultsToC ==
    LET rules == Get(DISAMBIGUATIONS, x_h)
    IN  /\ rules[Len(rules)] = Rule(<<"C">>, NoPattern)
        /\ (pc = "done" /\ extension = x_h) =>
            \A i \in 1..Len(ran) :
                (ran[i].stage = "heuristics" /\ "C" \in ToSet(ran[i].given)) =>
                    /\ ran[i].languages # <<>>
                    /\ result = Detection("Heuristics", ran[i].languages[1])
                    /\ i = Len(ran)
                    /\ (\A j \in 1..(Len(rules) - 1) :
                            ~RuleDecides(rules, j, ran[i].given, content))
                        => result = Detection("Heuristics", "C")

\* C10 witness: a .h file on which neither the Objective-C nor the C++ pattern
\* matches is C by heuristics, and the classifier was not called
C10_Witness ==
    /\ pc = "done"
    /\ filename = <<"a", ".", "h">>
    /\ content.rx = [re \in Regexes |-> "nomatch"]
    /\ ran[Len(ran)] = Ran("heuristics", <<"C", "C++", "Objective-C">>, <<"C">>)
    /\ result = Detection("Heuristics", "C")

\* ---- C11

\* C11: Positive(r) matches exactly when regex r matches the content,
\* Negative(r) exactly when Positive(r) does not (so exactly one of the two
\* matches, also when the engine reports a match-time error), Or when at least
\* one sub-pattern matches, And when every sub-pattern matches.
C11_PatternMatches ==
    (unit.op = "matches" /\ unit.returned) =>
        LET p == unit.pattern
            c == unit.content
        IN  /\ p.kind = "Positive" => (unit.out <=> is_match(p.re, c) = "match")
            /\ p.kind = "Negative" => (unit.out <=> ~matches(Positive(p.re), c))
            /\ p.kind = "Or" =>
                (unit.out <=> \E i \in 1..Len(p.patterns) : matches(p.patterns[i], c))
            /\ p.kind = "And" =>
                (unit.out <=> \A i \in 1..Len(p.patterns) : matches(p.patterns[i], c))

\* ---- C12

\* C12: classify returns (Ok) a language that is among the candidates when
\* there are candidates and in the LANGUAGES list when there are none; it never
\* indexes an empty list of scores.
C12_ClassifyWithin ==
    (unit.op = "classify" /\ unit.returned) =>
        /\ unit.out # PANIC
        /\ scored_candidates(unit.content, unit.candidates) # <<>>
        /\ unit.candidates # <<>> => unit.out \in ToSet(unit.candidates)
        /\ unit.candidates = <<>> => unit.out \in ToSet(LANGUAGES)

\* C12 witness: no candidates, and the content was classified among all languages
C12_Witness ==
    /\ unit.op = "classify" /\ unit.returned
    /\ unit.candidates = <<>>
    /\ unit.content.tokens = <<t_fn, t_brace>>
    /\ unit.out = "Rust"

\* ---- C13

\* the tokens of at most 32 bytes
ShortTokens(tokens) == SelectSeq(tokens, LAMBDA t : Len(t) <= 32)

\* the sum over the tokens of the language's log-probability for the token,
\* -19 for a token the language never saw
RECURSIVE TrainedScore(_, _)
TrainedScore(language, tokens) ==
    IF tokens = <<>> THEN 0
    ELSE LET seen == {e \in ToSet(Get(TOKEN_LOG_PROBABILITIES, language)) :
                        e[1] = Head(tokens)}
         IN  (IF seen = {} THEN -19 ELSE (CHOOSE e \in seen : TRUE)[2])
             + TrainedScore(language, Tail(tokens))

Trained(language) == language \in Keys(TOKEN_LOG_PROBABILITIES)

\* language a scores at least as much as language b
ScoresAtLeast(a, b, tokens) ==
    \/ ~Trained(b)
    \/ Trained(a) /\ TrainedScore(a, tokens) >= TrainedScore(b, tokens)

\* C13: classify returns a candidate whose score is maximal, the score of a
\* trained language being the sum over the content's tokens of at most 32 bytes
\* of its log-probability for the token (-19 for a token it never saw); among
\* the candidates with the maximal score it returns the first of the list, so
\* for content without tokens it returns the first trained candidate.
C13_ClassifyMaximal ==
    (unit.op = "classify" /\ unit.returned /\ unit.candidates # <<>>) =>
        LET cands == unit.candidates
            tokens == ShortTokens(unit.content.tokens)
            best == {i \in 1..Len(cands) :
                        \A j \in 1..Len(cands) : ScoresAtLeast(cands[i], cands[j], tokens)}
            trained == {i \in 1..Len(cands) : Trained(cands[i])}
        IN  /\ best # {}
            /\ unit.out = cands[CHOOSE i \in best : \A j \in best : i <= j]
            /\ (tokens = <<>> /\ trained # {}) =>
                    unit.out = cands[CHOOSE i \in trained : \A j \in trained : i <= j]

\* C13 witness: two candidates score the same on { and on a token too long to
\* count, and the first of them was returned
C13_Witness ==
    /\ unit.op = "classify" /\ unit.returned
    /\ unit.candidates = <<"RenderScript", "C">>
    /\ unit.content.tokens = <<t_brace, t_long>>
    /\ unit.out = "RenderScript"

\* ---- C14

\* C14: classify never returns a language that has no entry in
\* TOKEN_LOG_PROBABILITIES, for any content and any candidate list.
C14_UntrainedNeverReturned ==
    (unit.op = "classify" /\ unit.returned) => Trained(unit.out)

\* ---- C15

\* C15: for any text, the token sequence the classifier scores equals the token
\* sequence the trainer counts for it: identifier and symbol tokens of at most
\* 32 bytes, with nothing from inside comments, string literals or numeric
\* literals.
C15_SameTokenView ==
    (unit.op = "tokens" /\ unit.returned) => unit.scored = unit.counted

\* ---- C16

\* the items detect's reader was asked for after the first line: the up to four
\* look-ahead lines of a shebang line whose interpreter word is sh
LookAhead(items) ==
    IF items = <<>> \/ ~LineIsOk(Head(items)) \/ ~StartsWith(Head(items), <<"#", "!">>)
    THEN <<>>
    ELSE LET splits == split_whitespace(LastSegment(Head(items)))
         IN  IF splits # <<>> /\ splits[1] = i_sh
             THEN SubSeq(Tail(items), 1, IF Len(items) - 1 < 4 THEN Len(items) - 1 ELSE 4)
             ELSE <<>>

\* an operation detect performed met an I/O error
MetIoError ==
    \/ Contains(io, "open") /\ ~file.exists
    \/ Contains(io, "read_line") /\ file.items # <<>> /\ Head(file.items) = IO_ERROR
    \/ Contains(io, "read_line") /\ Contains(LookAhead(file.items), IO_ERROR)
    \/ Contains(io, "seek") /\ file.fault = "seek"
    \/ Contains(io, "read_to_string")
            /\ (file.fault = "read" \/ Contains(file.items, IO_ERROR))

\* C16: when the filename and extension stages do not decide, an I/O error from
\* opening the file, reading its first line, seeking back or reading the
\* content makes detect return Err with that error; detect never turns an I/O
\* error into Ok(None) or into a detection.
C16_IoErrorsPropagate ==
    pc = "done" =>
        /\ (Contains(io, "open") /\ ~file.exists) => result = Err("open")
        /\ (Contains(io, "read_line") /\ file.items # <<>> /\ Head(file.items) = IO_ERROR)
                => result = Err("read_line")
        /\ (Contains(io, "seek") /\ file.fault = "seek") => result = Err("seek")
        /\ (Contains(io, "read_to_string") /\ file.fault = "read")
                => result = Err("read_to_string")
        /\ MetIoError => result.kind = "Err"

\* ---- C17

\* a file that can be opened and read, some of whose bytes are not valid UTF-8
UndecodableFile ==
    /\ file.exists /\ file.fault = "none"
    /\ ~Contains(file.items, IO_ERROR)
    /\ \E i \in 1..Len(file.items) : ~IsValidUtf8(file.items[i])

\* C17: detect on a file holding bytes that are not valid UTF-8 does not return
\* an error: the content is treated as empty and detection proceeds with the
\* rest of the evidence.
C17_InvalidUtf8Tolerated ==
    (pc = "done" /\ UndecodableFile) => result.kind # "Err"

\* ---- C18

\* the file can be opened and every read of it succeeds
ReadableFile ==
    file.exists /\ file.fault = "none" /\ ~Contains(file.items, IO_ERROR)

\* what the extension lookup yields for the file name
ExtensionYield ==
    IF filename = NonUtf8FileName \/ get_extension(filename) = Nil THEN <<>>
    ELSE get_languages_from_extension(get_extension(filename))

\* C18: for a readable file whose path has a basename, detect returns Ok(None)
\* exactly when the basename is not in FILENAMES and the extension lookup and
\* the shebang lookup yield no language; a stage given candidates never leaves
\* none, and the classifier is never run without candidates.
C18_NoneExactly ==
    (pc = "done" /\ filename # NoFileName /\ ReadableFile) =>
        /\ result = OkNone <=>
                /\ filename \notin Keys(FILENAMES)
                /\ ExtensionYield = <<>>
                /\ get_languages_from_shebang(file.items).languages = <<>>
        /\ \A i \in 1..Len(ran) :
                /\ (ran[i].stage \in NarrowingStages /\ ran[i].given # <<>>)
                        => LeftBy(ran[i]) # <<>>
                /\ ran[i].stage = "classifier" => ran[i].given # <<>>

\* ---- C19

\* the language names held by a table of lists
ValuesOf(map) == UNION {ToSet(map[i][2]) : i \in 1..Len(map)}

\* C19: every language name detect returns is a key of the catalog built from
\* languages.yml (so Language::try_from finds it), whatever languages.yml,
\* heuristics.yml and sample corpus the tables were generated from.
C19_DetectedInCatalog ==
    (unit.op = "catalog" /\ unit.phase # "sources") =>
        LET catalog == Keys(unit.tables.LANGUAGE_INFO)
        IN  /\ {unit.tables.FILENAMES[i][2] : i \in 1..Len(unit.tables.FILENAMES)}
                    \subseteq catalog
            /\ ValuesOf(unit.tables.EXTENSIONS) \subseteq catalog
            /\ ValuesOf(unit.tables.INTERPRETERS) \subseteq catalog
            /\ (unit.phase = "detected" /\ unit.out.kind = "Ok" /\ unit.out # OkNone)
                    => unit.out.language \in catalog

\* C19 witness: heuristics.yml and the trained table name languages that
\* languages.yml lacks (Objective-C, Rust), the Objective-C pattern matches, and
\* the .h file was detected as a language of the catalog
C19_Witness ==
    /\ unit.op = "catalog" /\ unit.phase = "detected"
    /\ unit.languages = <<y_cpp, y_c>>
    /\ unit.heuristics = HeuristicsYml
    /\ unit.token_logs = TOKEN_LOG_PROBABILITIES
    /\ unit.path = <<"a", ".", "h">>
    /\ unit.file.rx["re1"] = "match"
    /\ unit.out = Detection("Heuristics", "C++")

\* ---- C20

\* the entries of the tree that are to be in the breakdown
Expected(tree) ==
    {e \in tree :
        /\ e.readable /\ ~e.is_dir /\ ~Overridden(e.path)
        /\ LET d == detect(e.path[Len(e.path)], e.file)
           IN  d.kind = "Ok" /\ d # OkNone}

\* the positions (bucket, index) of the map that hold an entry for path p
PlacesOf(map, p) ==
    {<<b, k>> \in (1..Len(map)) \X (1..MaxWalkEntries + 1) :
        k <= Len(map[b][2]) /\ map[b][2][k].path = p}

\* C20: for any number of workers and any interleaving, the map returned holds
\* exactly one entry (d, p) for every non-directory path p of the walk that the
\* overrides let through and for which detect(p) = Ok(Some(d)), under the key
\* d.language(), and nothing else; no bucket is empty or holds a detection of
\* another language; errors and Ok(None) are skipped and the walk goes on to
\* the end.
C20_BreakdownExact ==
    (unit.op = "breakdown" /\ unit.phase = "returned") =>
        LET map == unit.language_breakdown
        IN  /\ unit.queue = {} /\ unit.channel = <<>>
            /\ \A e \in Expected(unit.tree) :
                \E b \in 1..Len(map) : \E k \in 1..Len(map[b][2]) :
                    /\ PlacesOf(map, e.path) = {<<b, k>>}
                    /\ map[b][2][k].detection = detect(e.path[Len(e.path)], e.file)
                    /\ map[b][1] = map[b][2][k].detection.language
            /\ \A b \in 1..Len(map) :
                /\ map[b][2] # <<>>
                /\ \A c \in 1..Len(map) : map[c][1] = map[b][1] => c = b
                /\ \A k \in 1..Len(map[b][2]) :
                    /\ map[b][2][k].detection.language = map[b][1]
                    /\ \E e \in Expected(unit.tree) : e.path = map[b][2][k].path

\* C20 witness: two workers; two files of the same language came in against
\* the order of their paths, next to a file that detect fails on
C20_Witness ==
    /\ unit.op = "breakdown" /\ unit.phase = "returned"
    /\ DOMAIN unit.workers = 1..2
    /\ unit.tree = {e_src_c, e_h, e_bad}
    /\ unit.language_breakdown =
            << <<"C", << [detection |-> Detection("Heuristics", "C"), path |-> <<n_a_h>>],
                         [detection |-> Detection("Extension", "C"),
                          path |-> <<d_src, n_a_c>>] >> >> >>

\* ---- C21

\* the first and the last offset of the slices of a token
HullStart(token) == Min({token.spans[i][1] : i \in 1..Len(token.spans)})
HullEnd(token) == Max({token.spans[i][2] : i \in 1..Len(token.spans)})

\* C21: for every input the token iterator ends without a panic after at most
\* one call per character and one more, and every token's slices are the text
\* at the characters that token consumed: they lie in order from the first
\* character the call took to the last one it kept, so that the slices of
\* successive tokens come in non-decreasing order and do not overlap, also
\* after a recovery.
C21_SpansExact ==
    unit.op = "tokenizer" =>
        /\ unit.calls <= Len(unit.text) + 1
        /\ \A k \in 1..Len(unit.yielded) :
            LET y == unit.yielded[k]
            IN  /\ y.token # Panicked
                /\ HullStart(y.token) = y.from /\ HullEnd(y.token) = y.to
                /\ \A i \in 1..(Len(y.token.spans) - 1) :
                        y.token.spans[i][2] <= y.token.spans[i + 1][1]
                /\ k > 1 => HullEnd(unit.yielded[k - 1].token) <= HullStart(y.token)

\* ---- C22

\* the openers with their closers: block comments and triple quotes
BlockPairs ==
    { <<"BlockComment", <<"/", "*">>, <<"*", "/">> >>,
      <<"BlockComment", <<"{", "-">>, <<"-", "}">> >>,
      <<"BlockComment", <<"(", "*">>, <<"*", ")">> >>,
      <<"BlockComment", <<"<", "!", "-", "-">>, <<"-", "-", ">">> >>,
      <<"String", <<q2, q2, q2>>, <<q2, q2, q2>> >>,
      <<"String", <<"'", "'", "'">>, <<"'", "'", "'">> >> }

\* the offsets at or after from at which p occurs in text
Occurrences(text, p, from) == {i \in from..Len(text) : At(text, i + 1, p)}

\* the token at offset from opens with pair[2] (a triple quote being a run of
\* exactly three) and pair[3] occurs after the opener
OpensAndCloses(text, from, pair) ==
    /\ At(text, from + 1, pair[2])
    /\ pair[1] = "String" => ~At(text, from + 4, <<pair[2][1]>>)
    /\ Occurrences(text, pair[3], from + Len(pair[2])) # {}

\* C22: a token that begins with a block-comment opener (or a triple quote)
\* whose closer occurs after it is one BlockComment (String) of the opener, the
\* text up to the first occurrence of the closer, and the closer, and the next
\* token is read from right after the closer.
C22_BlockClosed ==
    unit.op = "tokenizer" =>
        \A k \in 1..Len(unit.yielded) : \A pair \in BlockPairs :
            LET y == unit.yielded[k]
                body == y.from + Len(pair[2])
                close == Min(Occurrences(unit.text, pair[3], body))
            IN  OpensAndCloses(unit.text, y.from, pair) =>
                    /\ y.token = Token(pair[1], <<Span(y.from, body), Span(body, close),
                                                  Span(close, close + Len(pair[3]))>>)
                    /\ y.to = close + Len(pair[3])

\* ---- C23

\* the number of backslashes in a row right before offset j, counted no
\* further back than offset low
BackslashesBefore(text, j, low) ==
    Max({n \in 0..(j - low) : \A m \in 1..n : text[j - m + 1] = "\\"})

\* the offsets at which the string opened by the one quote at offset from can
\* close: the same quote, on the same line, after an even number of backslashes
Closers(text, from) ==
    {j \in (from + 1)..(Len(text) - 1) :
        /\ text[j + 1] = text[from + 1]
        /\ BackslashesBefore(text, j, from + 1) % 2 = 0
        /\ \A m \in (from + 1)..(j - 1) : text[m + 1] # "\n"}

\* the length of the run of the character at offset from
QuoteRun(text, from) ==
    RunLen(SubSeq(text, from + 1, Len(text)), LAMBDA c : c = text[from + 1])

\* the token at offset from opens something that nothing closes: a block
\* comment, a string of one quote, or a run of three or more quotes
Unterminated(text, from) ==
    \/ \E pair \in BlockPairs :
            /\ pair[1] = "BlockComment"
            /\ At(text, from + 1, pair[2])
            /\ Occurrences(text, pair[3], from + Len(pair[2])) = {}
    \/ /\ text[from + 1] \in {q2, "'", backtick}
       /\ \/ QuoteRun(text, from) = 1 /\ Closers(text, from) = {}
          \/ LET n == QuoteRun(text, from)
             IN  /\ n >= 3
                 /\ Occurrences(text, [m \in 1..n |-> text[from + 1]], from + n) = {}

\* C23: a token that begins with an opener, a quote or a run of quotes that
\* nothing closes is the one-character Symbol of its first character, and the
\* characters still to be read are exactly those after that character, none
\* dropped and none twice, and the tokens that follow are those of that text
\* tokenized as an input of its own, also when the recovered text needs a
\* recovery itself.
C23_RecoveryIsFresh ==
    (unit.op = "tokenizer" /\ unit.yielded # <<>> /\ ~unit.returned) =>
        LET y == unit.yielded[Len(unit.yielded)]
        IN  Unterminated(unit.text, y.from) =>
                /\ y.token = Token("Symbol", <<Span(y.from, y.from + 1)>>)
                /\ y.to = y.from + 1
                /\ UpcomingChars(unit.t) = SubSeq(unit.text, y.from + 2, Len(unit.text))
                /\ Collect_tokens(unit.t)
                        = Tokenize(SubSeq(unit.text, y.from + 2, Len(unit.text)))

\* C23 witness: a quote that nothing closes inside the text recovered from a
\* block comment that nothing closes
C23_Witness ==
    /\ unit.op = "tokenizer" /\ ~unit.returned
    /\ unit.text = <<"/", "*", q2, "a">>
    /\ Len(unit.yielded) = 3
    /\ unit.yielded[1].token = Token("Symbol", <<Span(0, 1)>>)
    /\ unit.yielded[3].token = Token("Symbol", <<Span(2, 3)>>)
    /\ unit.t.backlog = << <<3, "a">> >>

\* ---- C24

\* the character of text at an offset, none past the end
CharAt(text, offset) == IF offset < Len(text) THEN text[offset + 1] ELSE ""

\* the k-th token comes right after an identifier or a number
FollowsWord(k) ==
    /\ k > 1
    /\ unit.yielded[k - 1].token.kind \in {"Ident", "Number"}
    /\ unit.yielded[k - 1].to = unit.yielded[k].from

\* C24: a token that begins with + or - is a Number only if a digit comes
\* right after the sign and the sign does not come right after an identifier
\* or a number; otherwise it is the one-character Symbol of the sign, or the
\* line comment that -- opens.
C24_SignOfNumber ==
    unit.op = "tokenizer" =>
        \A k \in 1..Len(unit.yielded) :
            LET y == unit.yielded[k]
                sign == CharAt(unit.text, y.from)
                digit_next == is_numeric(CharAt(unit.text, y.from + 1))
            IN  sign \in {"+", "-"} =>
                    IF digit_next /\ ~FollowsWord(k)
                    THEN y.token.kind = "Number" /\ y.token.spans[1][1] = y.from
                    ELSE IF sign = "-" /\ CharAt(unit.text, y.from + 1) = "-"
                    THEN y.token.kind = "LineComment"
                    ELSE y.token = Token("Symbol", <<Span(y.from, y.from + 1)>>)

\* ---- C25

\* the offset at which the line of offset from ends: that of its newline, or
\* the length of the text
LineEnd(text, from) ==
    Min({j \in from..Len(text) : j = Len(text) \/ text[j + 1] = "\n"})

\* C25: a token that begins with one quote character (and not a run of them)
\* is a String of the quote, the text up to the first same quote on the line
\* that an even number of backslashes precedes, and that quote; a quote after
\* an odd number of backslashes does not close it. Without such a quote before
\* the newline or the end of the input the token is the Symbol of the quote,
\* and the tokens of the text up to the end of the line follow it.
C25_SingleQuoteString ==
    (unit.op = "tokenizer" /\ unit.yielded # <<>> /\ ~unit.returned) =>
        LET y == unit.yielded[Len(unit.yielded)]
            text == unit.text
            line_end == LineEnd(text, y.from + 1)
        IN  (CharAt(text, y.from) \in {q2, "'", backtick} /\ QuoteRun(text, y.from) = 1) =>
                IF Closers(text, y.from) # {}
                THEN LET close == Min(Closers(text, y.from))
                     IN  /\ y.token = Token("String", <<Span(y.from, y.from + 1),
                                                        Span(y.from + 1, close),
                                                        Span(close, close + 1)>>)
                         /\ y.to = close + 1
                ELSE /\ y.token = Token("Symbol", <<Span(y.from, y.from + 1)>>)
                     /\ Collect_tokens(unit.t)
                            = Tokenize(SubSeq(text, y.from + 2, line_end))
                                \o Tokenize(SubSeq(text, line_end + 1, Len(text)))

\* C25 witness: the first quote after the opener is escaped, the second closes
C25_Witness ==
    /\ unit.op = "tokenizer"
    /\ unit.text = <<q2, "\\", q2, q2>>
    /\ unit.yielded = << [token |-> Token("String", <<Span(0, 1), Span(1, 3), Span(3, 4)>>),
                          from |-> 0, to |-> 4] >>
    /\ ~unit.returned

\* ------------------------------------- truncate_to_char_boundary (lib.rs)

MAX_CONTENT_SIZE_BYTES == 51200

\* A str as runs of characters: Run(width, count) is count characters whose
\* UTF-8 encoding takes width bytes each.
Run(width, count) == [width |-> width, count |-> count]

\* str::len: the length in bytes
RECURSIVE str_len(_)
str_len(s) ==
    IF s = <<>> THEN 0 ELSE Head(s).width * Head(s).count + str_len(Tail(s))

\* a test that takes every index up to the length for a boundary
is_char_boundary_any(s, index) == index <= str_len(s)

\* str::is_char_boundary: 0 and len are boundaries, an index past len is not,
\* any other index is one when the byte there does not continue a character
RECURSIVE is_char_boundary(_, _)
is_char_boundary(s, index) ==
    IF index = 0 THEN TRUE
    ELSE IF s = <<>> THEN FALSE
    ELSE LET bytes == Head(s).width * Head(s).count
         IN  IF index <= bytes THEN index % Head(s).width = 0
             ELSE is_char_boundary(Tail(s), index - bytes)

\* &s[..end]: the slice of the first end bytes of s; it panics when end is past
\* the length or inside a character
StrSlice(s, end) ==
    IF is_char_boundary(s, end) THEN [kind |-> "str", of |-> s, bytes |-> end]
    ELSE [kind |-> "panic", of |-> s, bytes |-> end]

NoSlice == [kind |-> "none", of |-> <<>>, bytes |-> 0]

\* the strings given: up to MaxRuns runs, neighbours of different widths, short
\* ones and ones about MAX_CONTENT_SIZE_BYTES long
MaxRuns == 2
CharWidths == 1..4
RunCounts ==
    {1, 2} \cup {MAX_CONTENT_SIZE_BYTES - k : k \in 0..3}
Runs == {Run(w, n) : w \in CharWidths, n \in RunCounts}
Strs ==
    {s \in SeqsUpTo(Runs, MaxRuns) :
        \A i \in 1..(Len(s) - 1) : s[i].width # s[i + 1].width}
MaxGiven == {0, 1, 2, 3, 4, 5, 6, MAX_CONTENT_SIZE_BYTES}

\* a call of truncate_to_char_boundary(s, max): by a caller of its own with any
\* max, or by detect on the content it has read (lib.rs 171)
InitTruncate ==
    /\ IsState(Idle)
    /\ \E s \in Strs, caller \in {"direct", "detect"} :
        \E given \in IF caller = "detect" THEN {MAX_CONTENT_SIZE_BYTES} ELSE MaxGiven :
            unit = [op |-> "truncate", at |-> "enter", caller |-> caller, s |-> s,
                    given |-> given, max |-> given, content |-> NoSlice,
                    heuristics_content |-> NoSlice, classifier_content |-> NoSlice]

\* lib.rs 199-201
TruncateEnter ==
    /\ unit.op = "truncate" /\ unit.at = "enter"
    /\ unit' = IF unit.max >= str_len(unit.s)
               THEN [unit EXCEPT !.at = "returned",
                                 !.content = [kind |-> "str", of |-> unit.s,
                                              bytes |-> str_len(unit.s)]]
               ELSE [unit EXCEPT !.at = "while"]
    /\ UNCHANGED DetectVars

\* lib.rs 202-204: one turn of the loop; max -= 1 on a usize of 0 panics
TruncateBackUp ==
    /\ unit.op = "truncate" /\ unit.at = "while"
    /\ ~is_char_boundary(unit.s, unit.max)
    /\ unit' = IF unit.max = 0
               THEN [unit EXCEPT !.at = "returned",
                                 !.content = [kind |-> "panic", of |-> unit.s, bytes |-> 0]]
               ELSE [unit EXCEPT !.max = unit.max - 1]
    /\ UNCHANGED DetectVars

\* lib.rs 202, 205: the loop ends and the prefix is returned
TruncateSlice ==
    /\ unit.op = "truncate" /\ unit.at = "while"
    /\ is_char_boundary(unit.s, unit.max)
    /\ unit' = [unit EXCEPT !.at = "returned", !.content = StrSlice(unit.s, unit.max)]
    /\ UNCHANGED DetectVars

\* lib.rs 178 and 191: detect hands &content, the truncated one, to the
\* heuristics and to the classifier
DetectPassesContent ==
    /\ unit.op = "truncate" /\ unit.at = "returned" /\ unit.caller = "detect"
    /\ unit.content.kind = "str"
    /\ unit' = [unit EXCEPT !.at = "passed",
                            !.heuristics_content = unit.content,
                            !.classifier_content = unit.content]
    /\ UNCHANGED DetectVars

NextTruncate ==
    \/ TruncateEnter
    \/ TruncateBackUp
    \/ TruncateSlice
    \/ DetectPassesContent

SpecTruncate == InitTruncate /\ [][NextTruncate]_vars

\* the byte offset b is where a character of s starts, or the end of s
OnBoundary(s, b) ==
    \/ b = 0
    \/ \E k \in 1..Len(s) :
        LET before == str_len(SubSeq(s, 1, k - 1))
        IN  /\ before < b
            /\ b <= before + s[k].width * s[k].count
            /\ (b - before) % s[k].width = 0

\* C26: truncate_to_char_boundary(s, max) ends, its loop never taking max below
\* 0 nor more than three bytes back; it returns s itself when s is at most max
\* bytes long, and otherwise the longest prefix of s of at most max bytes that
\* ends where a character ends, so no character is split; in detect the
\* heuristics and the classifier are given this prefix, cut at 51200 bytes.
C26_TruncateLongestPrefix ==
    unit.op = "truncate" =>
        /\ unit.max >= 0 /\ unit.given - unit.max <= 3
        /\ unit.at \in {"returned", "passed"} =>
            /\ unit.content.kind = "str"
            /\ unit.content.of = unit.s
            /\ unit.content.bytes <= unit.given
            /\ unit.content.bytes <= str_len(unit.s)
            /\ unit.given >= str_len(unit.s) => unit.content.bytes = str_len(unit.s)
            /\ OnBoundary(unit.s, unit.content.bytes)
            /\ \A b \in (unit.content.bytes + 1)..unit.given :
                b <= str_len(unit.s) => ~OnBoundary(unit.s, b)
        /\ unit.at = "passed" =>
            /\ unit.given = MAX_CONTENT_SIZE_BYTES
            /\ unit.heuristics_content = unit.content
            /\ unit.classifier_content = unit.content

\* detect read 51199 ASCII bytes and then a three-byte character: the content
\* handed on ends before that character
C26_Witness ==
    /\ unit.op = "truncate" /\ unit.at = "passed"
    /\ unit.s = <<Run(1, MAX_CONTENT_SIZE_BYTES - 1), Run(3, 1)>>
    /\ unit.max = MAX_CONTENT_SIZE_BYTES - 1
    /\ unit.heuristics_content.bytes = MAX_CONTENT_SIZE_BYTES - 1
    /\ unit.classifier_content.bytes = MAX_CONTENT_SIZE_BYTES - 1

\* --------------------------------------- train_classifier (bin/codegen.rs)

\* one file of samples/<dir>/: bytes is its text, or Undecodable for bytes that
\* are not UTF-8
SampleFile(dir, bytes) == [dir |-> dir, bytes |-> bytes]
Undecodable == <<BAD>>

\* codegen.rs 367-372: the language of a directory of samples
LanguageOfDir(dir) == IF dir = "Fstar" THEN "F*" ELSE dir

\* codegen.rs 389-390: std::str::from_utf8(..).unwrap_or("") and its key tokens
SampleTokens(bytes) == IF bytes = Undecodable THEN <<>> ELSE get_key_tokens(bytes)

\* map.entry(k).or_insert(0) += 1
Bump(map, k) ==
    [x \in DOMAIN map \cup {k} |->
        IF x = k THEN (IF k \in DOMAIN map THEN map[k] ELSE 0) + 1 ELSE map[x]]

\* temp_token_count.entry(language).or_insert(HashMap::new()), then the count
\* of the token in it
BumpToken(map, language, token) ==
    [x \in DOMAIN map \cup {language} |->
        IF x = language
        THEN Bump(IF language \in DOMAIN map THEN map[language] ELSE <<>>, token)
        ELSE map[x]]

\* the body of the loop with total_tokens counted outside the test of the length
Tallied_total_always(u, language, token) ==
    LET counted == [u EXCEPT !.temp_total_tokens_count =
                                Bump(u.temp_total_tokens_count, language)]
    IN  IF Len(token) <= MAX_TOKEN_BYTES
        THEN [counted EXCEPT !.temp_token_count =
                                BumpToken(u.temp_token_count, language, token)]
        ELSE counted

\* codegen.rs 393-403: the body of for token in tokens
Tallied(u, language, token) ==
    IF Len(token) <= MAX_TOKEN_BYTES
    THEN [u EXCEPT !.temp_total_tokens_count = Bump(u.temp_total_tokens_count, language),
                   !.temp_token_count = BumpToken(u.temp_token_count, language, token)]
    ELSE u

\* (count as f64 / total as f64).ln(), kept as the fraction it is the logarithm of
LnOf(count, total) == [count |-> count, total |-> total]

\* codegen.rs 410-420: the table written
LogProbabilities(token_count, total_tokens_count) ==
    [language \in DOMAIN token_count |->
        [token \in DOMAIN token_count[language] |->
            LnOf(token_count[language][token], total_tokens_count[language])]]

MaxSampleFiles == 2
SampleDirs == {"Rust", "C", "Fstar"}
SampleTexts ==
    { <<>>, <<"f", "n", " ", "{">>, <<"f", "n", " ", "f", "n">>, <<"5", " ", "{">>,
      t_long, t_long \o <<" ">> \o t_fn, Undecodable }
\* read_dir gives a directory once: the files of a directory follow one another
Samples ==
    {s \in SeqsUpTo({SampleFile(dir, b) : dir \in SampleDirs, b \in SampleTexts},
                    MaxSampleFiles) :
        \A i, k \in 1..Len(s) :
            (i < k /\ s[i].dir = s[k].dir) => \A j \in i..k : s[j].dir = s[i].dir}

InitTrain ==
    /\ IsState(Idle)
    /\ \E samples \in Samples :
        unit = [op |-> "train", at |-> "read", samples |-> samples, entry |-> 1,
                tokens |-> <<>>, temp_token_count |-> <<>>,
                temp_total_tokens_count |-> <<>>, table |-> <<>>]

\* codegen.rs 383-390: the next file is read and tokenized
TrainReadFile ==
    /\ unit.op = "train" /\ unit.at = "read" /\ unit.entry <= Len(unit.samples)
    /\ unit' = [unit EXCEPT !.at = "tokens",
                            !.tokens = SampleTokens(unit.samples[unit.entry].bytes)]
    /\ UNCHANGED DetectVars

\* codegen.rs 392-404: one token of the file
TrainToken ==
    /\ unit.op = "train" /\ unit.at = "tokens" /\ unit.tokens # <<>>
    /\ unit' = Tallied([unit EXCEPT !.tokens = Tail(unit.tokens)],
                       LanguageOfDir(unit.samples[unit.entry].dir), Head(unit.tokens))
    /\ UNCHANGED DetectVars

\* the tokens of the file are used up
TrainFileDone ==
    /\ unit.op = "train" /\ unit.at = "tokens" /\ unit.tokens = <<>>
    /\ unit' = [unit EXCEPT !.at = "read", !.entry = unit.entry + 1]
    /\ UNCHANGED DetectVars

\* codegen.rs 407-427
TrainWrite ==
    /\ unit.op = "train" /\ unit.at = "read" /\ unit.entry > Len(unit.samples)
    /\ unit' = [unit EXCEPT !.at = "written",
                            !.table = LogProbabilities(unit.temp_token_count,
                                                       unit.temp_total_tokens_count)]
    /\ UNCHANGED DetectVars

NextTrain ==
    \/ TrainReadFile
    \/ TrainToken
    \/ TrainFileDone
    \/ TrainWrite

SpecTrain == InitTrain /\ [][NextTrain]_vars

\* the places where a key token of at most MAX_TOKEN_BYTES bytes stands in the
\* sample files of a language
CountedPlaces(samples, language) ==
    {p \in UNION {{<<i, k>> : k \in 1..Len(SampleTokens(samples[i].bytes))} :
                    i \in 1..Len(samples)} :
        /\ LanguageOfDir(samples[p[1]].dir) = language
        /\ Len(SampleTokens(samples[p[1]].bytes)[p[2]]) <= MAX_TOKEN_BYTES}

PlacesOfToken(samples, language, token) ==
    {p \in CountedPlaces(samples, language) :
        SampleTokens(samples[p[1]].bytes)[p[2]] = token}

\* C27: in the table train_classifier writes, every language has one total, the
\* number of key tokens of at most 32 bytes in its sample files, which is the
\* sum of the counts of its tokens; every token of the table is such a token,
\* with its count between 1 and the total, so the logarithm written is that of
\* a fraction in (0, 1] and is at most 0; a language without such a token has
\* no entry.
C27_TrainerCounts ==
    (unit.op = "train" /\ unit.at = "written") =>
        /\ \A language \in DOMAIN unit.table :
            /\ CountedPlaces(unit.samples, language) # {}
            /\ \A token \in DOMAIN unit.table[language] :
                LET ln == unit.table[language][token]
                IN  /\ Len(token) <= MAX_TOKEN_BYTES
                    /\ ln.total = Cardinality(CountedPlaces(unit.samples, language))
                    /\ ln.count = Cardinality(PlacesOfToken(unit.samples, language, token))
                    /\ 1 <= ln.count /\ ln.count <= ln.total
            /\ \A p \in CountedPlaces(unit.samples, language) :
                SampleTokens(unit.samples[p[1]].bytes)[p[2]] \in DOMAIN unit.table[language]
        /\ \A i \in 1..Len(unit.samples) :
            LET language == LanguageOfDir(unit.samples[i].dir)
            IN  language \in DOMAIN unit.table <=> CountedPlaces(unit.samples, language) # {}

\* Rust has fn twice and { once besides a token of 33 bytes that is not counted;
\* the samples of C hold no token that is counted
C27_Witness ==
    /\ unit.op = "train" /\ unit.at = "written"
    /\ unit.samples = << SampleFile("Rust", t_long \o <<" ">> \o t_fn),
                         SampleFile("Rust", <<"f", "n", " ", "{">>) >>
    /\ DOMAIN unit.table = {"Rust"}
    /\ unit.table["Rust"][t_fn] = LnOf(2, 3)
    /\ unit.table["Rust"][t_brace] = LnOf(1, 3)

\* ---- get_language_breakdown: the result channel

\* no send has failed; a worker is at work only while the receiver and its own
\* clone of tx live; the receive loop runs only once run has returned, with
\* nothing left to walk, no worker at work and no sender left
ChannelSafe ==
    unit.op = "breakdown" =>
        /\ ~unit.panicked
        /\ unit.phase = "walking" => (unit.rx /\ unit.tx /\ unit.clones = Len(unit.workers))
        /\ unit.phase \in {"collecting", "returned"} =>
            /\ unit.queue = {}
            /\ \A w \in DOMAIN unit.workers : unit.workers[w] = Waiting
            /\ ~unit.tx /\ unit.clones = 0
        /\ unit.phase = "collecting" => unit.rx
        /\ unit.phase = "returned" => unit.channel = <<>>

\* with the buffered results drained the loop does nothing but end
LoopEndsWhenDrained ==
    (unit.op = "breakdown" /\ unit.phase = "collecting" /\ unit.channel = <<>>)
        => unit'.phase = "returned"

\* C28: get_language_breakdown neither panics on the result channel nor
\* deadlocks: every send finds the receiver alive, the receive loop starts only
\* after walker.run has returned and the original sender is dropped, it ends
\* when the buffered results are drained, and for every tree and number of
\* threads the function returns in the end.
C28_ChannelTerminates ==
    /\ [](ChannelSafe)
    /\ [][LoopEndsWhenDrained]_vars
    /\ <>(unit.op = "breakdown" /\ unit.phase = "returned")

\* two workers have sent the detections of three files and the function has
\* returned with all three
C28_Witness ==
    /\ unit.op = "breakdown" /\ unit.phase = "returned"
    /\ Len(unit.workers) = 2
    /\ unit.tree = {e_src_c, e_h, e_rs}
    /\ \A e \in unit.tree : PlacesOf(unit.language_breakdown, e.path) # {}
    /\ ~unit.rx /\ ~unit.panicked

\* ---- C29

\* an interpreter word without its minor version, the major version kept:
\* python2.7.3 is python2, perl6.0 is perl6
MajorVersionOf(interpreter) ==
    LET hits == {i \in 1..(Len(interpreter) - 2) :
                    /\ interpreter[i] \in Digits
                    /\ interpreter[i + 1] = "."
                    /\ interpreter[i + 2] \in Digits}
    IN  IF hits = {} THEN interpreter
        ELSE SubSeq(interpreter, 1, CHOOSE i \in hits : \A j \in hits : i <= j)

\* the languages INTERPRETERS gives for the interpreter the first line names
LanguagesOfInterpreter(items) ==
    IF items = <<>> \/ ~LineIsOk(Head(items)) \/ ~StartsWith(Head(items), <<"#", "!">>)
    THEN <<>>
    ELSE LET parsed == ParseInterpreter(Head(items), Tail(items))
         IN  IF parsed # Nil /\ HasKey(INTERPRETERS, MajorVersionOf(parsed))
             THEN Get(INTERPRETERS, MajorVersionOf(parsed))
             ELSE <<>>

\* C29: the variant of the Detection names the stage that produced the
\* language: Extension(L) only if the extension maps to exactly [L]; Shebang(L)
\* only if L is among the languages of the interpreter the first line names;
\* Heuristics(L) only if the heuristics ran and what they gave, intersected with
\* the candidates, is exactly {L}; Classifier(L) only if at least two candidates
\* were left when the classifier was called.
C29_VariantNamesStage ==
    (pc = "done" /\ result.kind = "Ok" /\ result.variant # None) =>
        /\ result.variant = "Extension" =>
            /\ extension # Nil /\ HasKey(EXTENSIONS, extension)
            /\ Get(EXTENSIONS, extension) = <<result.language>>
        /\ result.variant = "Shebang" =>
            result.language \in ToSet(LanguagesOfInterpreter(file.items))
        /\ result.variant = "Heuristics" =>
            \E i \in 1..Len(ran) :
                /\ ran[i].stage = "heuristics"
                /\ ToSet(ran[i].languages) \cap ToSet(ran[i].given) = {result.language}
        /\ result.variant = "Classifier" =>
            \E i \in 1..Len(ran) :
                /\ ran[i].stage = "classifier"
                /\ Cardinality(ToSet(ran[i].given)) >= 2

\* ---- C30

\* C30: for a basename that is not a key of FILENAMES and whose extension maps
\* to a non-empty S, every language detect returns is in S; a shebang that
\* names only languages outside S decides nothing and leaves S to the stage
\* after it.
C30_WithinExtensionSet ==
    (/\ pc = "done"
     /\ filename \notin {NoFileName, NonUtf8FileName}
     /\ ~HasKey(FILENAMES, filename)
     /\ extension # Nil /\ HasKey(EXTENSIONS, extension)
     /\ Get(EXTENSIONS, extension) # <<>>) =>
        /\ (result.kind = "Ok" /\ result.variant # None) =>
                result.language \in ToSet(Get(EXTENSIONS, extension))
        /\ \A i \in 1..Len(ran) :
            (/\ ran[i].stage = "shebang"
             /\ ran[i].languages # <<>>
             /\ ToSet(ran[i].languages) \cap ToSet(Get(EXTENSIONS, extension)) = {}) =>
                /\ result.variant # "Shebang"
                /\ i < Len(ran) => ran[i + 1].given = Get(EXTENSIONS, extension)

\* a.h with the first line #!/bin/python: Python is not a language of .h, the
\* three languages of .h went on to the heuristics and one of them came back
C30_Witness ==
    /\ pc = "done"
    /\ filename = <<"a", ".", "h">>
    /\ file.items = <<l_python>>
    /\ \E i \in 1..Len(ran) : ran[i].stage = "shebang" /\ ran[i].languages = <<"Python">>
    /\ \E i \in 1..Len(ran) :
        ran[i].stage = "heuristics" /\ ran[i].given = Get(EXTENSIONS, x_h)
    /\ result.kind = "Ok"
    /\ result.language \in ToSet(Get(EXTENSIONS, x_h))

=============================================================================
